--------------------------- MODULE Spec2Model ---------------------------
(***************************************************************************)
(* A model of the text-cleaning pipeline of epub2speech                    *)
(* (src/epub2speech/extractor.py) and of the sentence splitter of          *)
(* ChapterTTS (src/epub2speech/chapter_tts.py).                            *)
(*                                                                         *)
(* Text is a sequence of characters.  A character is a one-character       *)
(* string; a character outside printable ASCII is written "Uxxxx", its     *)
(* code point in hexadecimal ("U76EE" is the CJK character at U+76EE).     *)
(* Scores are kept in tenths (the code adds 2.0, 1.0, 0.5 and 0.3, so      *)
(* tenths are exact), densities as a pair <<numerator, denominator>>.      *)
(***************************************************************************)
EXTENDS Integers, Sequences, FiniteSets, TLC

(***************************************************************************)
(* Character classes of the regular expressions.                           *)
(***************************************************************************)
WhiteSpace == {" ", "\t", "\n"}

Digits == {"0", "1", "2", "3", "4", "5", "6", "7", "8", "9"}

\* \s
IsSpace(c) == c \in WhiteSpace

\* \d
IsDigit(c) == c \in Digits

UpperSeq ==
    <<"A", "B", "C", "D", "E", "F", "G", "H", "I", "J", "K", "L", "M",
      "N", "O", "P", "Q", "R", "S", "T", "U", "V", "W", "X", "Y", "Z">>

LowerSeq ==
    <<"a", "b", "c", "d", "e", "f", "g", "h", "i", "j", "k", "l", "m",
      "n", "o", "p", "q", "r", "s", "t", "u", "v", "w", "x", "y", "z">>

UpperChars == {UpperSeq[k] : k \in 1..26}

LowerChars == {LowerSeq[k] : k \in 1..26}

\* [A-Za-z]
IsLetter(c) == c \in UpperChars \cup LowerChars

\* str.lower() of one character
LowerChar(c) ==
    IF c \in UpperChars THEN LowerSeq[CHOOSE k \in 1..26 : UpperSeq[k] = c] ELSE c

\* str.lower()
Lower(t) == [k \in 1..Len(t) |-> LowerChar(t[k])]

\* The characters of the range [\u4e00-\u9fff] that occur in the modelled texts.
CJKChars ==
    {"U76EE", "U5F55", "U6B21", "U7B2C", "U4E00", "U7AE0", "U7AE5", "U5E74", "U8FD9",
     "U91CC", "U662F", "U6B63", "U6587", "U7684", "U4E86", "U5728", "U548C", "U4E0E",
     "U53CA", "U5E76", "U800C", "U4F46", "U5982", "U679C", "U56E0", "U4E3A", "U6240",
     "U4EE5", "U6211", "U4EEC", "U4ED6", "U4F60", "U90A3", "U7B80", "U4ECB", "U5185",
     "U5BB9", "U5F00", "U59CB", "U660E", "U5B9E", "U4E8C", "U4E09", "U56DB", "U4E94",
     "U516D", "U4E03", "U516B", "U4E5D", "U5341", "U767E", "U5343", "U4E07", "U96F6",
     "U4E24", "U8282", "U5377", "U90E8", "U7BC7", "U56DE", "U5F15"}

\* \w : letters, digits, the underscore, and the ideographs (U+3007 included)
IsWordChar(c) == IsLetter(c) \/ IsDigit(c) \/ c = "_" \/ c \in CJKChars \/ c = "U3007"

\* [_\-=~*#.] and the middle dot, bullet and ellipsis characters of _DECORATION_RE
DecorationChars == {"_", "-", "=", "~", "*", "#", "U00B7", ".", "U2022", "U22EF", "U2026"}

\* [-_=~*#] of _WRAPPER_SIDE_PATTERN
WrapperChars == {"-", "_", "=", "~", "*", "#"}

\* the leader characters of (?:\.{2,}|_{2,}|-{2,}|...)
LeaderChars == {".", "_", "-", "U2026", "U00B7", "U22EF"}

\* [0-9...] of _TOC_ENTRY_ZH_RE: digits and Chinese numerals
ZhNumeralChars ==
    {"0", "1", "2", "3", "4", "5", "6", "7", "8", "9", "U4E00", "U4E8C", "U4E09",
     "U56DB", "U4E94", "U516D", "U4E03", "U516B", "U4E5D", "U5341", "U767E", "U5343",
     "U4E07", "U96F6", "U3007", "U4E24"}

\* the unit characters (chapter, section, volume, ...) of _TOC_ENTRY_ZH_RE
ZhUnitChars == {"U7AE0", "U8282", "U5377", "U90E8", "U7BC7", "U56DE"}

\* [ivxlcdm] under re.IGNORECASE
RomanChars == {"i", "v", "x", "l", "c", "d", "m", "I", "V", "X", "L", "C", "D", "M"}

\* the characters of _PUNCT_RE
PunctChars ==
    {"U3002", "UFF01", "UFF1F", "!", "?", ";", "UFF1B", ":", ",", "UFF0C", "."}

\* the sentence-final characters searched by the classifier and the reclassifier
SentenceFinalChars == {"U3002", "UFF01", "UFF1F", "!", "?"}

(***************************************************************************)
(* Sequence helpers.                                                       *)
(***************************************************************************)
Max2(a, b) == IF a >= b THEN a ELSE b

Min2(a, b) == IF a <= b THEN a ELSE b

\* the suffix of t from position p on
From(t, p) == SubSeq(t, p, Len(t))

\* whether pat occurs in t at position p
HasAt(t, p, pat) ==
    /\ p >= 1
    /\ p + Len(pat) - 1 <= Len(t)
    /\ \A k \in 1..Len(pat) : t[p + k - 1] = pat[k]

\* the number of consecutive characters of class S in t from position p on
RECURSIVE RunLen(_, _, _)
RunLen(t, p, S) ==
    IF p >= 1 /\ p <= Len(t) /\ t[p] \in S THEN 1 + RunLen(t, p + 1, S) ELSE 0

\* the number of consecutive characters of class S in t that end at position p
RECURSIVE RunLenBack(_, _, _)
RunLenBack(t, p, S) ==
    IF p >= 1 /\ p <= Len(t) /\ t[p] \in S THEN 1 + RunLenBack(t, p - 1, S) ELSE 0

\* str.strip()
Strip(t) ==
    LET a == RunLen(t, 1, WhiteSpace)
        b == RunLenBack(t, Len(t), WhiteSpace)
    IN  IF a = Len(t) THEN <<>> ELSE SubSeq(t, a + 1, Len(t) - b)

\* the positions of t, in order
Positions(t) == [k \in 1..Len(t) |-> k]

\* the least element of a non-empty set of numbers
MinOf(S) == CHOOSE x \in S : \A y \in S : x <= y

\* re.sub(r"\s+", " ", t): of a run of whitespace only the first character stays,
\* as a space
CollapseWhitespace(t) ==
    LET stays(k) == ~(IsSpace(t[k]) /\ k > 1 /\ IsSpace(t[k - 1]))
        ks == SelectSeq(Positions(t), stays)
    IN  [j \in 1..Len(ks) |-> IF IsSpace(t[ks[j]]) THEN " " ELSE t[ks[j]]]

\* re.sub(r"\s+", " ", t).strip()
CollapseStrip(t) == Strip(CollapseWhitespace(t))

\* the number of characters of t that are in S
CountIn(t, S) == Cardinality({k \in 1..Len(t) : t[k] \in S})

\* the first position from p on where the non-empty pat occurs in t, 0 when there
\* is none
FirstAt(t, p, pat) ==
    LET S == {k \in p..Len(t) : t[k] = pat[1] /\ HasAt(t, k, pat)}
    IN  IF S = {} THEN 0 ELSE MinOf(S)

\* str.count(pat): the number of non-overlapping occurrences of pat from p on
RECURSIVE CountFrom(_, _, _)
CountFrom(t, p, pat) ==
    LET m == FirstAt(t, p, pat)
    IN  IF m = 0 THEN 0 ELSE 1 + CountFrom(t, m + Len(pat), pat)

\* _WORD_RE.findall(t): the maximal runs of letters, left to right
Words(t) ==
    LET starts(k) == IsLetter(t[k]) /\ (k = 1 \/ ~IsLetter(t[k - 1]))
        ks == SelectSeq(Positions(t), starts)
    IN  [j \in 1..Len(ks) |->
            SubSeq(t, ks[j], ks[j] + RunLen(t, ks[j], UpperChars \cup LowerChars) - 1)]

\* _english_word_count
EnglishWordCount(t) == Len(Words(t))

(***************************************************************************)
(* The regular expressions of extractor.py, each as the predicate          *)
(* "the pattern matches", decided the way a backtracking matcher decides   *)
(* it.                                                                     *)
(***************************************************************************)
\* _TOC_HEADER_RE.fullmatch, re.IGNORECASE
TocHeaderMatch(t) ==
    Lower(t) \in
        {<<"U76EE", "U5F55">>,
         <<"U76EE", "U6B21">>,
         <<"c", "o", "n", "t", "e", "n", "t">>,
         <<"c", "o", "n", "t", "e", "n", "t", "s">>,
         <<"t", "a", "b", "l", "e", " ", "o", "f", " ", "c", "o", "n", "t", "e", "n", "t", "s">>}

\* _DECORATION_RE.fullmatch: three or more decoration characters and nothing else
DecorationMatch(t) == Len(t) >= 3 /\ \A k \in 1..Len(t) : t[k] \in DecorationChars

\* _PAGE_NUMBER_RE.fullmatch, re.IGNORECASE: (?:page\s*)?\d{1,4}
PageNumberMatch(t) ==
    LET d == RunLenBack(t, Len(t), Digits)
        head == SubSeq(t, 1, Len(t) - d)
    IN  /\ d >= 1
        /\ d <= 4
        /\ \/ head = <<>>
           \/ /\ HasAt(Lower(head), 1, <<"p", "a", "g", "e">>)
              /\ \A k \in 5..Len(head) : IsSpace(head[k])

\* The tail (leader){2,}\s*\d{1,4}$ shared by the three table-of-contents entry
\* patterns: the position of the last leader character, or 0 when the text does
\* not end in one to four digits preceded by whitespace and a leader character.
LeaderEnd(t) ==
    LET d == RunLenBack(t, Len(t), Digits)
        s == RunLenBack(t, Len(t) - d, WhiteSpace)
        e == Len(t) - d - s
    IN  IF d >= 1 /\ d <= 4 /\ e >= 1 /\ t[e] \in LeaderChars THEN e ELSE 0

\* the length of the run of the one leader character that ends at LeaderEnd(t)
LeaderRun(t) ==
    LET e == LeaderEnd(t) IN IF e = 0 THEN 0 ELSE RunLenBack(t, e, {t[e]})

\* _TOC_LEADER_RE.fullmatch: .{1,120} then the tail; the leader takes k >= 2
\* characters of its run and the rest of the text is the .{1,120}
TocLeaderMatch(t) ==
    LET e == LeaderEnd(t)
    IN  /\ e > 0
        /\ \E k \in 2..LeaderRun(t) :
              /\ e - k >= 1
              /\ e - k <= 120
              /\ \A j \in 1..(e - k) : t[j] # "\n"

\* _TOC_ENTRY_ZH_RE.fullmatch: an optional ordinal prefix (U+7B2C), numerals,
\* a unit character, then anything up to the tail
TocEntryZhMatch(t) ==
    LET e == LeaderEnd(t)
        o == IF Len(t) >= 1 /\ t[1] = "U7B2C" THEN 1 ELSE 0
        m == RunLen(t, o + 1, ZhNumeralChars)
        h == o + m + 1
    IN  /\ e > 0
        /\ LeaderRun(t) >= 2
        /\ m >= 1
        /\ h <= Len(t)
        /\ t[h] \in ZhUnitChars
        /\ h <= e - 2
        /\ \A j \in (h + 1)..(e - 2) : t[j] # "\n"

TocEntryEnKeywords ==
    {<<"c", "h", "a", "p", "t", "e", "r">>,
     <<"s", "e", "c", "t", "i", "o", "n">>,
     <<"p", "a", "r", "t">>,
     <<"b", "o", "o", "k">>,
     <<"a", "p", "p", "e", "n", "d", "i", "x">>}

\* _TOC_ENTRY_EN_RE.fullmatch, re.IGNORECASE: a keyword, a word boundary, then
\* anything up to the tail
TocEntryEnMatch(t) ==
    LET e == LeaderEnd(t)
    IN  /\ e > 0
        /\ LeaderRun(t) >= 2
        /\ \E kw \in TocEntryEnKeywords :
              /\ HasAt(Lower(t), 1, kw)
              /\ Len(kw) <= e - 2
              /\ ~IsWordChar(t[Len(kw) + 1])
              /\ \A j \in (Len(kw) + 1)..(e - 2) : t[j] # "\n"

LikelyTocKeywords ==
    {<<"c", "h", "a", "p", "t", "e", "r">>,
     <<"s", "e", "c", "t", "i", "o", "n">>,
     <<"p", "a", "r", "t">>,
     <<"b", "o", "o", "k">>}

\* _LIKELY_TOC_SHORT_EN_RE.match, re.IGNORECASE: a keyword, whitespace, a roman
\* or an arabic numeral, a word boundary; matched at the start of the text
LikelyTocShortEnMatch(t) ==
    \E kw \in LikelyTocKeywords :
        /\ HasAt(Lower(t), 1, kw)
        /\ LET s == RunLen(t, Len(kw) + 1, WhiteSpace)
               p == Len(kw) + 1 + s
               r == RunLen(t, p, RomanChars)
               d == RunLen(t, p, Digits)
           IN  /\ s >= 1
               /\ \/ r >= 1 /\ (p + r > Len(t) \/ ~IsWordChar(t[p + r]))
                  \/ d >= 1 /\ (p + d > Len(t) \/ ~IsWordChar(t[p + d]))

\* re.search(r"[sentence-final characters]", t)
HasSentenceFinal(t) == \E k \in 1..Len(t) : t[k] \in SentenceFinalChars

\* re.search(r"[\u4e00-\u9fff]", t)
HasCJK(t) == \E k \in 1..Len(t) : t[k] \in CJKChars

\* _is_noise_line
IsNoiseLine(line) ==
    LET stripped == Strip(line)
        compact_line == CollapseWhitespace(stripped)
    IN  \/ stripped = <<>>
        \/ TocHeaderMatch(compact_line)
        \/ DecorationMatch(compact_line)
        \/ PageNumberMatch(compact_line)
        \/ TocLeaderMatch(compact_line)
        \/ TocEntryZhMatch(compact_line)
        \/ TocEntryEnMatch(compact_line)

(***************************************************************************)
(* _normalize_wrapped_decoration_text and _normalize_tts_punctuation_text. *)
(***************************************************************************)
\* the alternatives of _GENERIC_WRAPPED_MARKER_RE, in the order of the pattern
GenericMarkerSeq ==
    <<<<"U6B63", "U6587">>,
      <<"U7B80", "U4ECB">>,
      <<"U5185", "U5BB9", "U7B80", "U4ECB">>,
      <<"U6B63", "U6587", "U5F00", "U59CB">>>>

\* _GENERIC_WRAPPER_MARKERS
GenericWrapperMarkers == {GenericMarkerSeq[k] : k \in 1..Len(GenericMarkerSeq)}

\* where the marker of _GENERIC_WRAPPED_MARKER_RE has to start in a match that
\* starts at p: after the whole run of wrapper characters and the whitespace
GenericMarkerStart(t, p) ==
    p + RunLen(t, p, WrapperChars) + RunLen(t, p + RunLen(t, p, WrapperChars), WhiteSpace)

\* the end of the \s*[-_=~*#]{2,} that follows the marker, which ends before r0: the
\* position after the run of wrapper characters, 0 when it has fewer than two
GenericTailEnd(t, r0) ==
    LET r == r0 + RunLen(t, r0, WhiteSpace)
    IN  IF RunLen(t, r, WrapperChars) >= 2 THEN r + RunLen(t, r, WrapperChars) ELSE 0

\* the markers that match at q and are followed by the right wrapper (at most one:
\* a marker that is a prefix of another is followed by a character of the other)
GenericMarkersAt(t, q) ==
    {m \in GenericWrapperMarkers : HasAt(t, q, m) /\ GenericTailEnd(t, q + Len(m)) > 0}

GenericMatchEndAt(t, q, M) ==
    IF M = {} THEN 0 ELSE GenericTailEnd(t, q + Len(CHOOSE m \in M : TRUE))

\* The end (the position after the last matched character) of the match of
\* _GENERIC_WRAPPED_MARKER_RE that starts at p, or 0 when there is none.  The left
\* wrapper takes its whole run (a marker or whitespace must follow it), so does the
\* whitespace on both sides, and the right wrapper is greedy.
GenericMatchEnd(t, p) ==
    IF RunLen(t, p, WrapperChars) >= 2
    THEN GenericMatchEndAt(t, GenericMarkerStart(t, p),
                           GenericMarkersAt(t, GenericMarkerStart(t, p)))
    ELSE 0

\* the first position from p on where _GENERIC_WRAPPED_MARKER_RE matches, 0 when none
GenericFirstMatch(t, p) ==
    LET S == {k \in p..Len(t) : t[k] \in WrapperChars /\ GenericMatchEnd(t, k) > 0}
    IN  IF S = {} THEN 0 ELSE MinOf(S)

\* _GENERIC_WRAPPED_MARKER_RE.sub(" ", t), from p on: the matches left to right, m
\* the first of them
RECURSIVE GenericSubAt(_, _, _)
GenericSubAt(t, p, m) ==
    IF m = 0 THEN From(t, p)
    ELSE SubSeq(t, p, m - 1) \o <<" ">>
             \o GenericSubAt(t, GenericMatchEnd(t, m),
                             GenericFirstMatch(t, GenericMatchEnd(t, m)))

GenericSub(t) == GenericSubAt(t, 1, GenericFirstMatch(t, 1))

\* The match of _ANY_WRAPPED_DECORATION_RE that starts at p, as the choices of the
\* backtracking matcher: a characters of the left wrapper (2 or more), b whitespace
\* characters, c characters of the inner group (1 to 80, none a line break).  What
\* follows the inner group is whitespace, all of it, and a wrapper of two or more.
AnyWrappedFits(t, q, c) ==
    /\ q + c - 1 <= Len(t)
    /\ \A j \in q..(q + c - 1) : t[j] # "\n"
    /\ RunLen(t, q + c + RunLen(t, q + c, WhiteSpace), WrapperChars) >= 2

AnyWrappedChoices(t, p) ==
    UNION {UNION {{<<a, b, c>> : c \in {c \in 1..80 : AnyWrappedFits(t, p + a + b, c)}} :
                    b \in 0..RunLen(t, p + a, WhiteSpace)} :
             a \in 2..RunLen(t, p, WrapperChars)}

\* Mutant of PreferredChoice: the left wrapper lazy, as if the pattern read
\* [-_=~*#]{2,}? for the left side.
LazyLeftChoice(S) ==
    CHOOSE x \in S :
        \A y \in S :
            \/ x[1] < y[1]
            \/ x[1] = y[1] /\ x[2] > y[2]
            \/ x[1] = y[1] /\ x[2] = y[2] /\ x[3] <= y[3]

\* The matcher's order of preference: the left wrapper greedy, the whitespace
\* greedy, the inner group lazy.
PreferredChoice(S) ==
    CHOOSE x \in S :
        \A y \in S :
            \/ x[1] > y[1]
            \/ x[1] = y[1] /\ x[2] > y[2]
            \/ x[1] = y[1] /\ x[2] = y[2] /\ x[3] <= y[3]

AnyWrappedChoice(t, p) == PreferredChoice(AnyWrappedChoices(t, p))

AnyWrappedMatches(t, p) == t[p] \in WrapperChars /\ AnyWrappedChoices(t, p) # {}

\* the position after the match that starts at p and makes the choice x
AnyWrappedEndOf(t, p, x) ==
    LET r == p + x[1] + x[2] + x[3] + RunLen(t, p + x[1] + x[2] + x[3], WhiteSpace)
    IN  r + RunLen(t, r, WrapperChars)

AnyWrappedEnd(t, p) == AnyWrappedEndOf(t, p, AnyWrappedChoice(t, p))

\* match.group(1) of the match that starts at p and makes the choice x
AnyWrappedGroupOf(t, p, x) == SubSeq(t, p + x[1] + x[2], p + x[1] + x[2] + x[3] - 1)

AnyWrappedGroup(t, p) == AnyWrappedGroupOf(t, p, AnyWrappedChoice(t, p))

\* _replace_wrapped: what a match with the inner group stripped to inner is replaced by
ReplaceWrappedInner(inner) ==
    IF inner = <<>> \/ inner \in GenericWrapperMarkers
    THEN <<" ">>
    ELSE <<" ">> \o inner \o <<" ">>

ReplaceWrapped(group) == ReplaceWrappedInner(CollapseStrip(group))

\* the first position from p on where _ANY_WRAPPED_DECORATION_RE matches, 0 when none
AnyWrappedFirstMatch(t, p) ==
    LET S == {k \in p..Len(t) : AnyWrappedMatches(t, k)}
    IN  IF S = {} THEN 0 ELSE MinOf(S)

\* _ANY_WRAPPED_DECORATION_RE.sub(_replace_wrapped, t), from p on: the matches left
\* to right, m the first of them
RECURSIVE AnyWrappedSubAt(_, _, _)
AnyWrappedSubAt(t, p, m) ==
    IF m = 0 THEN From(t, p)
    ELSE SubSeq(t, p, m - 1) \o ReplaceWrapped(AnyWrappedGroup(t, m))
             \o AnyWrappedSubAt(t, AnyWrappedEnd(t, m),
                                AnyWrappedFirstMatch(t, AnyWrappedEnd(t, m)))

AnyWrappedSub(t) == AnyWrappedSubAt(t, 1, AnyWrappedFirstMatch(t, 1))

\* whether _ANY_WRAPPED_DECORATION_RE matches anywhere in t
AnyWrappedSearch(t) == AnyWrappedFirstMatch(t, 1) > 0

\* the rest of _normalize_wrapped_decoration_text, replaced the text after the
\* generic markers are gone
NormalizeAfterGenericSub(text, replaced) ==
    [text |-> CollapseStrip(AnyWrappedSub(replaced)),
     had_change |-> replaced # text \/ AnyWrappedSearch(replaced)]

\* _normalize_wrapped_decoration_text: [text, had_change]
NormalizeWrappedDecorationText(text) == NormalizeAfterGenericSub(text, GenericSub(text))

\* The match of _BOOK_TITLE_IN_PARENS_RE that starts at p: an opening parenthesis,
\* whitespace, U+300A, 1 to 120 characters other than U+300B, U+300B, whitespace, a
\* closing parenthesis.  BookTitleOpen is the position of U+300A, BookTitleInner the
\* number of characters up to the first U+300B, BookTitleMatchEnd the position after
\* the match, 0 when there is none.
BookTitleOpen(t, p) == p + 1 + RunLen(t, p + 1, WhiteSpace)

BookTitleInnerAt(q, c) == IF c = 0 THEN 0 ELSE c - (q + 1)

BookTitleInner(t, p) ==
    BookTitleInnerAt(BookTitleOpen(t, p), FirstAt(t, BookTitleOpen(t, p) + 1, <<"U300B">>))

BookTitleMatchEndAt(t, p, q, n) ==
    LET s == q + n + 2 + RunLen(t, q + n + 2, WhiteSpace)
    IN  IF /\ t[p] \in {"UFF08", "("}
           /\ HasAt(t, q, <<"U300A">>)
           /\ n >= 1
           /\ n <= 120
           /\ HasAt(t, q + 1 + n, <<"U300B">>)
           /\ s <= Len(t)
           /\ t[s] \in {"UFF09", ")"}
        THEN s + 1
        ELSE 0

BookTitleMatchEnd(t, p) ==
    IF t[p] \in {"UFF08", "("}
    THEN BookTitleMatchEndAt(t, p, BookTitleOpen(t, p), BookTitleInner(t, p))
    ELSE 0

\* the first position from p on where _BOOK_TITLE_IN_PARENS_RE matches, 0 when none
BookTitleFirstMatch(t, p) ==
    LET S == {k \in p..Len(t) : BookTitleMatchEnd(t, k) > 0}
    IN  IF S = {} THEN 0 ELSE MinOf(S)

\* _BOOK_TITLE_IN_PARENS_RE.sub: the title keeps its marks and loses the parentheses;
\* m is the first match from p on
RECURSIVE BookTitleSubAt(_, _, _)
BookTitleSubAt(t, p, m) ==
    IF m = 0 THEN From(t, p)
    ELSE SubSeq(t, p, m - 1)
             \o SubSeq(t, BookTitleOpen(t, m), BookTitleOpen(t, m) + 1 + BookTitleInner(t, m))
             \o BookTitleSubAt(t, BookTitleMatchEnd(t, m),
                               BookTitleFirstMatch(t, BookTitleMatchEnd(t, m)))

BookTitleSub(t) == BookTitleSubAt(t, 1, BookTitleFirstMatch(t, 1))

\* _normalize_tts_punctuation_text
NormalizeTtsPunctuationText(text) == CollapseStrip(BookTitleSub(text))

\* _EN_STOPWORDS
EnStopwords ==
    {<<"t", "h", "e">>,
     <<"a">>,
     <<"a", "n">>,
     <<"a", "n", "d">>,
     <<"o", "r">>,
     <<"b", "u", "t">>,
     <<"i", "f">>,
     <<"t", "h", "e", "n">>,
     <<"t", "h", "a", "n">>,
     <<"t", "o">>,
     <<"o", "f">>,
     <<"f", "o", "r">>,
     <<"o", "n">>,
     <<"i", "n">>,
     <<"a", "t">>,
     <<"b", "y">>,
     <<"w", "i", "t", "h">>,
     <<"i", "s">>,
     <<"a", "r", "e">>,
     <<"w", "a", "s">>,
     <<"w", "e", "r", "e">>,
     <<"b", "e">>,
     <<"b", "e", "e", "n">>,
     <<"i", "t">>,
     <<"t", "h", "i", "s">>,
     <<"t", "h", "a", "t">>,
     <<"t", "h", "e", "s", "e">>,
     <<"t", "h", "o", "s", "e">>,
     <<"a", "s">>,
     <<"f", "r", "o", "m">>,
     <<"w", "e">>,
     <<"y", "o", "u">>,
     <<"t", "h", "e", "y">>,
     <<"h", "e">>,
     <<"s", "h", "e">>}

\* _ZH_STOPWORD_HINTS, in the order of the source
ZhStopwordHints ==
    <<<<"U7684">>,
      <<"U4E86">>,
      <<"U662F">>,
      <<"U5728">>,
      <<"U548C">>,
      <<"U4E0E">>,
      <<"U53CA">>,
      <<"U5E76">>,
      <<"U800C">>,
      <<"U4F46">>,
      <<"U5982", "U679C">>,
      <<"U56E0", "U4E3A">>,
      <<"U6240", "U4EE5">>,
      <<"U6211", "U4EEC">>,
      <<"U4ED6", "U4EEC">>,
      <<"U4F60", "U4EEC">>,
      <<"U8FD9">>,
      <<"U90A3">>>>
(***************************************************************************)
(* Densities.  A density is <<numerator, denominator>>, denominator > 0.   *)
(***************************************************************************)
\* d >= n / 1000
AtLeastPerMille(d, n) == d[1] * 1000 >= n * d[2]

\* d > n / 1000
AbovePerMille(d, n) == d[1] * 1000 > n * d[2]

\* d < n / 1000
BelowPerMille(d, n) == d[1] * 1000 < n * d[2]

\* round(d, 3), in thousandths
RoundPerMille(d) == (2000 * d[1] + d[2]) \div (2 * d[2])

\* the sum over the hints of text.count(hint)
RECURSIVE ZhHitsFrom(_, _)
ZhHitsFrom(text, k) ==
    IF k > Len(ZhStopwordHints) THEN 0
    ELSE CountFrom(text, 1, ZhStopwordHints[k]) + ZhHitsFrom(text, k + 1)

\* _estimate_stopword_density: max(en_density, zh_density), where en_density is
\* en_hits / len(word_matches), 0.0 when there is no word, and zh_density is
\* zh_hits / max(len(text), 1)
EstimateStopwordDensity(text) ==
    LET word_matches == Words(Lower(text))
        en_hits == Cardinality({k \in 1..Len(word_matches) : word_matches[k] \in EnStopwords})
        zh_hits == ZhHitsFrom(text, 1)
    IN  IF /\ Len(word_matches) > 0
           /\ en_hits * Max2(Len(text), 1) >= zh_hits * Len(word_matches)
        THEN <<en_hits, Len(word_matches)>>
        ELSE <<zh_hits, Max2(Len(text), 1)>>

(***************************************************************************)
(* The strictness presets and the classifier.                              *)
(***************************************************************************)
\* TEXT_CLEANING_STRICTNESS_LEVELS
TEXT_CLEANING_STRICTNESS_LEVELS == {"conservative", "balanced", "aggressive"}

\* _validate_cleaning_strictness with every value accepted
ValidateCleaningStrictnessAcceptingAll(cleaning_strictness) == TRUE

\* _validate_cleaning_strictness: TRUE when it returns, FALSE when it raises
\* ValueError
ValidateCleaningStrictness(cleaning_strictness) ==
    cleaning_strictness \in TEXT_CLEANING_STRICTNESS_LEVELS

\* Mutant of STRICTNESS_CONFIGS: the conservative bad_score is -2.0, the one of
\* balanced.
STRICTNESS_CONFIGS_CONSERVATIVE_BAD_SCORE_2 ==
    [s \in TEXT_CLEANING_STRICTNESS_LEVELS |->
        CASE s = "conservative" ->
                [short_length |-> 18, low_length |-> 60, high_length |-> 180,
                 max_link_density |-> 550, min_punct_density |-> 3,
                 min_stopword_density |-> 5, good_score |-> 5, bad_score |-> -20]
          [] s = "balanced" ->
                [short_length |-> 25, low_length |-> 70, high_length |-> 200,
                 max_link_density |-> 350, min_punct_density |-> 4,
                 min_stopword_density |-> 8, good_score |-> 10, bad_score |-> -20]
          [] s = "aggressive" ->
                [short_length |-> 35, low_length |-> 80, high_length |-> 220,
                 max_link_density |-> 250, min_punct_density |-> 5,
                 min_stopword_density |-> 10, good_score |-> 12, bad_score |-> -15]]

\* _STRICTNESS_CONFIGS: lengths in characters, densities in thousandths, scores in
\* tenths
STRICTNESS_CONFIGS ==
    [s \in TEXT_CLEANING_STRICTNESS_LEVELS |->
        CASE s = "conservative" ->
                [short_length |-> 18, low_length |-> 60, high_length |-> 180,
                 max_link_density |-> 550, min_punct_density |-> 3,
                 min_stopword_density |-> 5, good_score |-> 5, bad_score |-> -25]
          [] s = "balanced" ->
                [short_length |-> 25, low_length |-> 70, high_length |-> 200,
                 max_link_density |-> 350, min_punct_density |-> 4,
                 min_stopword_density |-> 8, good_score |-> 10, bad_score |-> -20]
          [] s = "aggressive" ->
                [short_length |-> 35, low_length |-> 80, high_length |-> 220,
                 max_link_density |-> 250, min_punct_density |-> 5,
                 min_stopword_density |-> 10, good_score |-> 12, bad_score |-> -15]]

\* _Block as the extractor creates it (the defaults of the dataclass)
NewBlock(index, tag, text, total_chars, link_chars, is_heading) ==
    [index |-> index, tag |-> tag, text |-> text, total_chars |-> total_chars,
     link_chars |-> link_chars, is_heading |-> is_heading, keep |-> FALSE,
     classification |-> "short", reason |-> "", score |-> 0,
     link_density |-> <<0, 1>>, punct_density |-> <<0, 1>>, stopword_density |-> <<0, 1>>]

\* the score with the punctuation penalty applied to blocks of any length
BlockScorePenalizingEveryLength(block, config) ==
    (IF Len(block.text) >= config.high_length THEN 20
     ELSE IF Len(block.text) >= config.low_length THEN 10 ELSE 0)
    + (IF AbovePerMille(block.link_density, config.max_link_density) THEN -20 ELSE 0)
    + (IF BelowPerMille(block.punct_density, config.min_punct_density) THEN -10 ELSE 0)
    + (IF AtLeastPerMille(block.stopword_density, config.min_stopword_density) THEN 5 ELSE 0)
    + (IF HasSentenceFinal(block.text) THEN 5 ELSE 0)
    + (IF block.is_heading THEN 3 ELSE 0)

\* the score of _classify_block, in tenths, from the densities stored in the block
BlockScore(block, config) ==
    (IF Len(block.text) >= config.high_length THEN 20
     ELSE IF Len(block.text) >= config.low_length THEN 10 ELSE 0)
    + (IF AbovePerMille(block.link_density, config.max_link_density) THEN -20 ELSE 0)
    + (IF BelowPerMille(block.punct_density, config.min_punct_density)
          /\ Len(block.text) >= config.low_length THEN -10 ELSE 0)
    + (IF AtLeastPerMille(block.stopword_density, config.min_stopword_density) THEN 5 ELSE 0)
    + (IF HasSentenceFinal(block.text) THEN 5 ELSE 0)
    + (IF block.is_heading THEN 3 ELSE 0)

\* the reason of _classify_block: the later penalty overwrites the earlier one
BlockReason(block, config) ==
    IF BelowPerMille(block.punct_density, config.min_punct_density)
       /\ Len(block.text) >= config.low_length
    THEN "low_punctuation_density"
    ELSE IF AbovePerMille(block.link_density, config.max_link_density)
         THEN "high_link_density"
         ELSE "content_like"

\* the classification with the score tested before the length
ScoreClassificationScoreFirst(char_len, score, config) ==
    IF score >= config.good_score THEN "good"
    ELSE IF score <= config.bad_score THEN "bad"
    ELSE IF char_len < config.short_length THEN "short"
    ELSE "near_good"

\* the classification of _classify_block from the length and the score
ScoreClassification(char_len, score, config) ==
    IF char_len < config.short_length THEN "short"
    ELSE IF score >= config.good_score THEN "good"
    ELSE IF score <= config.bad_score THEN "bad"
    ELSE "near_good"

\* _classify_block from "char_len = len(text)" to the noise test: the normalized
\* text and the three densities are stored in the block
MeasureBlock(block, text) ==
    [block EXCEPT
        !.text = text,
        !.link_density = <<block.link_chars, Max2(block.total_chars, 1)>>,
        !.punct_density = <<CountIn(text, PunctChars), Max2(Len(text), 1)>>,
        !.stopword_density = EstimateStopwordDensity(text)]

\* Mutant of ClassifyMeasured: the noise test is left out, every block is scored.
ClassifyMeasuredWithoutNoiseTest(block, config) ==
    [block EXCEPT
        !.score = BlockScore(block, config),
        !.reason = BlockReason(block, config),
        !.classification =
            ScoreClassification(Len(block.text), BlockScore(block, config), config)]

\* _classify_block from the noise test on
ClassifyMeasured(block, config) ==
    IF IsNoiseLine(block.text)
    THEN [block EXCEPT !.classification = "bad", !.reason = "noise_pattern", !.score = -100]
    ELSE [block EXCEPT
            !.score = BlockScore(block, config),
            !.reason = BlockReason(block, config),
            !.classification =
                ScoreClassification(Len(block.text), BlockScore(block, config), config)]

\* _classify_block after the two normalizations of the text
ClassifyNormalized(block, text, had_wrapped_change, config) ==
    IF had_wrapped_change /\ text = <<>>
    THEN [block EXCEPT !.text = text, !.classification = "bad",
                       !.reason = "decorative_wrapper_marker", !.score = -100]
    ELSE ClassifyMeasured(MeasureBlock(block, text), config)

ClassifyUnwrapped(block, norm, config) ==
    ClassifyNormalized(block, NormalizeTtsPunctuationText(norm.text), norm.had_change, config)

\* _classify_block
ClassifyBlock(block, config) ==
    ClassifyUnwrapped(block, NormalizeWrappedDecorationText(block.text), config)

(***************************************************************************)
(* _apply_context_reclassification.  Positions are 1..Len(blocks); a       *)
(* missing neighbour has the classification "none".                        *)
(***************************************************************************)
PrevCls(blocks, idx) == IF idx > 1 THEN blocks[idx - 1].classification ELSE "none"

NextCls(blocks, idx) == IF idx + 1 <= Len(blocks) THEN blocks[idx + 1].classification ELSE "none"

\* _english_word_count(f"{a} {b}")
JoinedWordCount(a, b) == EnglishWordCount(a \o <<" ">> \o b)

\* the condition of short_prefix_for_content, without the strictness test
ShortPrefixForContent(blocks, idx) ==
    /\ NextCls(blocks, idx) \in {"good", "near_good"}
    /\ idx + 1 <= Len(blocks)
    /\ EnglishWordCount(blocks[idx].text) >= 2
    /\ JoinedWordCount(blocks[idx].text, blocks[idx + 1].text) >= 6
    /\ ~LikelyTocShortEnMatch(blocks[idx].text)

\* the condition of short_suffix_for_content, without the strictness test
ShortSuffixForContent(blocks, idx) ==
    /\ PrevCls(blocks, idx) \in {"good", "near_good"}
    /\ idx > 1
    /\ EnglishWordCount(blocks[idx].text) >= 2
    /\ JoinedWordCount(blocks[idx - 1].text, blocks[idx].text) >= 6
    /\ ~LikelyTocShortEnMatch(blocks[idx].text)

\* Mutant of ShortPromotionReason: the last rule of the chain,
\* conservative_short_keep, is missing.
ShortPromotionReasonWithoutShortKeep(blocks, idx, cleaning_strictness) ==
    LET block == blocks[idx]
        prev_cls == PrevCls(blocks, idx)
        next_cls == NextCls(blocks, idx)
    IN  IF block.is_heading /\ next_cls \in {"good", "near_good"}
        THEN "heading_with_content_context"
        ELSE IF prev_cls = "good" /\ next_cls = "good"
        THEN "surrounded_by_content"
        ELSE IF HasSentenceFinal(block.text) /\ Len(block.text) >= 4
        THEN "short_but_sentence_like"
        ELSE IF HasCJK(block.text) /\ Len(block.text) >= 4 /\ ~IsNoiseLine(block.text)
        THEN "short_cjk_content_like"
        ELSE IF /\ cleaning_strictness # "aggressive"
                /\ EnglishWordCount(block.text) >= 4
                /\ AtLeastPerMille(block.stopword_density, 120)
                /\ ~LikelyTocShortEnMatch(block.text)
        THEN "short_en_content_like"
        ELSE IF cleaning_strictness # "aggressive" /\ ShortPrefixForContent(blocks, idx)
        THEN "short_prefix_for_content"
        ELSE IF cleaning_strictness # "aggressive" /\ ShortSuffixForContent(blocks, idx)
        THEN "short_suffix_for_content"
        ELSE ""

\* Mutant of ShortPromotionReason: the last rule of the chain tests for the wrong
\* strictness, aggressive instead of conservative.
ShortPromotionReasonAggressiveKeep(blocks, idx, cleaning_strictness) ==
    IF ShortPromotionReasonWithoutShortKeep(blocks, idx, cleaning_strictness) # ""
    THEN ShortPromotionReasonWithoutShortKeep(blocks, idx, cleaning_strictness)
    ELSE IF cleaning_strictness = "aggressive" THEN "conservative_short_keep"
    ELSE ""

\* Mutant of ShortPromotionReason: short_prefix_for_content does not test the
\* text for the TOC-like prefix.
ShortPromotionReasonPrefixIgnoringToc(blocks, idx, cleaning_strictness) ==
    IF ShortPromotionReasonWithoutShortKeep(blocks, idx, cleaning_strictness) # ""
    THEN ShortPromotionReasonWithoutShortKeep(blocks, idx, cleaning_strictness)
    ELSE IF /\ cleaning_strictness # "aggressive"
            /\ NextCls(blocks, idx) \in {"good", "near_good"}
            /\ EnglishWordCount(blocks[idx].text) >= 2
            /\ JoinedWordCount(blocks[idx].text, blocks[idx + 1].text) >= 6
    THEN "short_prefix_for_content"
    ELSE IF cleaning_strictness = "conservative" THEN "conservative_short_keep"
    ELSE ""

\* Mutant of ShortPromotionReason: short_en_content_like does not test the
\* strictness.
ShortPromotionReasonEnUnderAggressive(blocks, idx, cleaning_strictness) ==
    IF ShortPromotionReasonWithoutShortKeep(blocks, idx, cleaning_strictness) # ""
    THEN ShortPromotionReasonWithoutShortKeep(blocks, idx, cleaning_strictness)
    ELSE IF /\ EnglishWordCount(blocks[idx].text) >= 4
            /\ AtLeastPerMille(blocks[idx].stopword_density, 120)
            /\ ~LikelyTocShortEnMatch(blocks[idx].text)
    THEN "short_en_content_like"
    ELSE IF cleaning_strictness = "conservative" THEN "conservative_short_keep"
    ELSE ""

\* the reason the first pass promotes the short block at idx with, "" when it
\* leaves the block short: the if/elif chain of the first loop
ShortPromotionReason(blocks, idx, cleaning_strictness) ==
    LET block == blocks[idx]
        prev_cls == PrevCls(blocks, idx)
        next_cls == NextCls(blocks, idx)
    IN  IF block.is_heading /\ next_cls \in {"good", "near_good"}
        THEN "heading_with_content_context"
        ELSE IF prev_cls = "good" /\ next_cls = "good"
        THEN "surrounded_by_content"
        ELSE IF HasSentenceFinal(block.text) /\ Len(block.text) >= 4
        THEN "short_but_sentence_like"
        ELSE IF HasCJK(block.text) /\ Len(block.text) >= 4 /\ ~IsNoiseLine(block.text)
        THEN "short_cjk_content_like"
        ELSE IF /\ cleaning_strictness # "aggressive"
                /\ EnglishWordCount(block.text) >= 4
                /\ AtLeastPerMille(block.stopword_density, 120)
                /\ ~LikelyTocShortEnMatch(block.text)
        THEN "short_en_content_like"
        ELSE IF cleaning_strictness # "aggressive" /\ ShortPrefixForContent(blocks, idx)
        THEN "short_prefix_for_content"
        ELSE IF cleaning_strictness # "aggressive" /\ ShortSuffixForContent(blocks, idx)
        THEN "short_suffix_for_content"
        ELSE IF cleaning_strictness = "conservative"
        THEN "conservative_short_keep"
        ELSE ""

\* Mutant of PromoteShort: a bad block is promoted like a short one.
PromoteShortOrBad(blocks, idx, cleaning_strictness) ==
    IF /\ blocks[idx].classification \in {"short", "bad"}
       /\ ShortPromotionReason(blocks, idx, cleaning_strictness) # ""
    THEN [blocks EXCEPT ![idx].classification = "near_good",
                        ![idx].reason = ShortPromotionReason(blocks, idx, cleaning_strictness)]
    ELSE blocks

\* the first half of one iteration of the first loop: a short block is promoted
PromoteShort(blocks, idx, cleaning_strictness) ==
    LET reason == ShortPromotionReason(blocks, idx, cleaning_strictness)
    IN  IF blocks[idx].classification = "short" /\ reason # ""
        THEN [blocks EXCEPT ![idx].classification = "near_good", ![idx].reason = reason]
        ELSE blocks

\* Mutant of PromoteNearGood: one content neighbour is enough.
PromoteNearGoodOneSided(blocks, idx) ==
    IF /\ blocks[idx].classification = "near_good"
       /\ \/ PrevCls(blocks, idx) \in {"good", "near_good"}
          \/ NextCls(blocks, idx) \in {"good", "near_good"}
    THEN [blocks EXCEPT ![idx].classification = "good", ![idx].reason = "context_promoted"]
    ELSE blocks

\* the second half: a near_good block between two content blocks becomes good
PromoteNearGood(blocks, idx) ==
    IF /\ blocks[idx].classification = "near_good"
       /\ PrevCls(blocks, idx) \in {"good", "near_good"}
       /\ NextCls(blocks, idx) \in {"good", "near_good"}
    THEN [blocks EXCEPT ![idx].classification = "good", ![idx].reason = "context_promoted"]
    ELSE blocks

\* one iteration of the first loop of _apply_context_reclassification
FirstPassStep(blocks, idx, cleaning_strictness) ==
    PromoteNearGood(PromoteShort(blocks, idx, cleaning_strictness), idx)

\* one iteration of the second loop (which runs unless the strictness is aggressive)
SecondPassStep(blocks, idx) ==
    IF blocks[idx].classification # "short" THEN blocks
    ELSE IF ShortPrefixForContent(blocks, idx)
    THEN [blocks EXCEPT ![idx].classification = "near_good",
                        ![idx].reason = "short_prefix_for_content"]
    ELSE IF ShortSuffixForContent(blocks, idx)
    THEN [blocks EXCEPT ![idx].classification = "near_good",
                        ![idx].reason = "short_suffix_for_content"]
    ELSE blocks

RECURSIVE FirstPassFrom(_, _, _)
FirstPassFrom(blocks, idx, cleaning_strictness) ==
    IF idx > Len(blocks) THEN blocks
    ELSE FirstPassFrom(FirstPassStep(blocks, idx, cleaning_strictness), idx + 1,
                       cleaning_strictness)

RECURSIVE SecondPassFrom(_, _)
SecondPassFrom(blocks, idx) ==
    IF idx > Len(blocks) THEN blocks
    ELSE SecondPassFrom(SecondPassStep(blocks, idx), idx + 1)

\* _apply_context_reclassification
ApplyContextReclassification(blocks, cleaning_strictness) ==
    LET first == FirstPassFrom(blocks, 1, cleaning_strictness)
    IN  IF cleaning_strictness # "aggressive" THEN SecondPassFrom(first, 1) ELSE first

(***************************************************************************)
(* _finalize_keep_decision, _serialize_report, the join of the kept lines. *)
(***************************************************************************)
\* Mutant of KeepDecision: every near_good block is kept, whatever the strictness
\* and the reason.
KeepDecisionEveryNearGood(block, cleaning_strictness) ==
    block.classification \in {"good", "near_good"}

\* the keep flag _finalize_keep_decision gives one block
KeepDecision(block, cleaning_strictness) ==
    IF block.classification = "good" THEN TRUE
    ELSE IF block.classification = "near_good"
    THEN ~(/\ cleaning_strictness = "aggressive"
           /\ block.reason \in {"high_link_density", "low_punctuation_density"})
    ELSE FALSE

\* _finalize_keep_decision
FinalizeKeepDecision(blocks, cleaning_strictness) ==
    [k \in 1..Len(blocks) |->
        [blocks[k] EXCEPT !.keep = KeepDecision(blocks[k], cleaning_strictness)]]

IsRemoved(block) == ~block.keep

IsKept(block) == block.keep

\* one entry of removed_samples
RemovedSample(block) ==
    [index |-> block.index, tag |-> block.tag,
     text |-> SubSeq(block.text, 1, Min2(Len(block.text), 200)),
     classification |-> block.classification, reason |-> block.reason,
     score |-> block.score,
     link_density |-> RoundPerMille(block.link_density),
     punct_density |-> RoundPerMille(block.punct_density),
     stopword_density |-> RoundPerMille(block.stopword_density)]

\* Mutant of SerializeReport: removed_blocks counts the bad blocks only.
SerializeReportCountingBad(blocks, cleaning_strictness) ==
    LET removed_blocks == SelectSeq(blocks, IsRemoved)
        kept_blocks == SelectSeq(blocks, IsKept)
    IN  [strictness |-> cleaning_strictness,
         total_blocks |-> Len(blocks),
         kept_blocks |-> Len(kept_blocks),
         removed_blocks |-> Cardinality({k \in 1..Len(blocks) : blocks[k].classification = "bad"}),
         removed_samples |->
            [k \in 1..Min2(Len(removed_blocks), 20) |-> RemovedSample(removed_blocks[k])]]

\* _serialize_report
SerializeReport(blocks, cleaning_strictness) ==
    LET removed_blocks == SelectSeq(blocks, IsRemoved)
        kept_blocks == SelectSeq(blocks, IsKept)
    IN  [strictness |-> cleaning_strictness,
         total_blocks |-> Len(blocks),
         kept_blocks |-> Len(kept_blocks),
         removed_blocks |-> Len(removed_blocks),
         removed_samples |->
            [k \in 1..Min2(Len(removed_blocks), 20) |-> RemovedSample(removed_blocks[k])]]

\* the report extract_text_from_html_with_report returns when there is no block
EmptyReport(cleaning_strictness) ==
    [strictness |-> cleaning_strictness, total_blocks |-> 0, kept_blocks |-> 0,
     removed_blocks |-> 0, removed_samples |-> <<>>]

IsKeptLine(block) == block.keep /\ block.text # <<>>

\* Mutant of KeptLines: the kept lines in the reverse order.
KeptLinesReversed(blocks) ==
    LET kept == SelectSeq(blocks, IsKeptLine)
    IN  [k \in 1..Len(kept) |-> kept[Len(kept) + 1 - k].text]

\* kept_lines of _clean_with_block_pipeline
KeptLines(blocks) ==
    LET kept == SelectSeq(blocks, IsKeptLine)
    IN  [k \in 1..Len(kept) |-> kept[k].text]

\* " ".join(lines)
RECURSIVE JoinWithSpace(_)
JoinWithSpace(lines) ==
    IF lines = <<>> THEN <<>>
    ELSE IF Len(lines) = 1 THEN lines[1]
    ELSE lines[1] \o <<" ">> \o JoinWithSpace(Tail(lines))

\* cleaned_text of _clean_with_block_pipeline
CleanedText(blocks) == CollapseStrip(JoinWithSpace(KeptLines(blocks)))

(***************************************************************************)
(* The texts the model draws block texts from.  Each is a text the         *)
(* extractor can emit: trimmed, whitespace-collapsed and not empty.        *)
(***************************************************************************)
\* a table-of-contents header (2 characters)
T_TocHeader ==
    <<"U76EE", "U5F55">>

\* a decoration-only line (3 characters)
T_Decoration ==
    <<"_", "_", "_">>

\* a rule of eleven underscores (11 characters)
T_LongRule ==
    <<"_", "_", "_", "_", "_", "_", "_", "_", "_", "_", "_">>

\* a bare page number (2 characters)
T_PageNumber ==
    <<"4", "2">>

\* a Chinese table-of-contents entry with leader dots (18 characters)
T_TocEntryZh ==
    <<"U7B2C", "U4E00", "U7AE0", " ", "U7AE5", "U5E74", " ", ".", ".", ".", ".", ".",
      ".", ".", ".", " ", "1", "2">>

\* an English table-of-contents entry (18 characters)
T_TocEntryEn ==
    <<"C", "h", "a", "p", "t", "e", "r", " ", "I", "I", " ", "_", "_", "_", "_", " ",
      "2", "1">>

\* a generic marker in a decorative wrapper (10 characters)
T_WrappedMarker ==
    <<"=", "=", "=", "=", "U6B63", "U6587", "=", "=", "=", "=">>

\* a chapter heading in a decorative wrapper (14 characters)
T_WrappedHeading ==
    <<"=", "=", "=", "=", "U7B2C", "U4E00", "U7AE0", " ", "U7AE5", "U5E74", "=", "=",
      "=", "=">>

\* a short Latin fragment in a decorative wrapper (15 characters)
T_WrappedLatin ==
    <<"=", "=", "Q", "u", "i", "c", "k", " ", "r", "e", "c", "a", "p", "=", "=">>

\* a short Latin fragment (11 characters)
T_QuickRecap ==
    <<"Q", "u", "i", "c", "k", " ", "r", "e", "c", "a", "p">>

\* a short Chinese sentence (6 characters)
T_ZhSentence ==
    <<"U8FD9", "U91CC", "U662F", "U6B63", "U6587", "U3002">>

\* a chapter label (9 characters)
T_ChapterI ==
    <<"C", "h", "a", "p", "t", "e", "r", " ", "I">>

\* an English sentence (40 characters)
T_EnSentence ==
    <<"T", "h", "i", "s", " ", "i", "s", " ", "t", "h", "e", " ", "r", "e", "a", "l",
      " ", "c", "o", "n", "t", "e", "n", "t", " ", "o", "f", " ", "t", "h", "e", " ",
      "c", "h", "a", "p", "t", "e", "r", ".">>

\* an English dedication without punctuation (38 characters)
T_Leon ==
    <<"T", "o", " ", "L", "e", "o", "n", " ", "W", "e", "r", "t", "h", " ", "w", "h",
      "e", "n", " ", "h", "e", " ", "w", "a", "s", " ", "a", " ", "l", "i", "t", "t",
      "l", "e", " ", "b", "o", "y">>

\* English prose with sentence-final marks (47 characters)
T_Question ==
    <<"I", "s", " ", "t", "h", "i", "s", " ", "t", "h", "e", " ", "r", "e", "a", "l",
      " ", "c", "o", "n", "t", "e", "n", "t", " ", "o", "f", " ", "t", "h", "e", " ",
      "c", "h", "a", "p", "t", "e", "r", "?", " ", "I", "t", " ", "i", "s", "!">>

\* a long English sentence (84 characters)
T_LongProse ==
    <<"W", "e", " ", "w", "e", "r", "e", " ", "v", "e", "r", "y", " ", "t", "i", "r",
      "e", "d", " ", "a", "n", "d", " ", "i", "t", " ", "w", "a", "s", " ", "l", "a",
      "t", "e", ",", " ", "b", "u", "t", " ", "t", "h", "e", " ", "r", "o", "a", "d",
      " ", "t", "o", " ", "t", "h", "e", " ", "o", "l", "d", " ", "h", "o", "u", "s",
      "e", " ", "w", "a", "s", " ", "l", "o", "n", "g", " ", "a", "n", "d", " ", "d",
      "a", "r", "k", "!">>

\* long text without punctuation or stopwords (91 characters)
T_NoPunct ==
    <<"l", "o", "r", "e", "m", " ", "i", "p", "s", "u", "m", " ", "d", "o", "l", "o",
      "r", " ", "s", "i", "t", " ", "a", "m", "e", "t", " ", "c", "o", "n", "s", "e",
      "c", "t", "e", "t", "u", "r", " ", "a", "d", "i", "p", "i", "s", "c", "i", "n",
      "g", " ", "e", "l", "i", "t", " ", "s", "e", "d", " ", "e", "i", "u", "s", "m",
      "o", "d", " ", "t", "e", "m", "p", "o", "r", " ", "i", "n", "c", "i", "d", "i",
      "d", "u", "n", "t", " ", "l", "a", "b", "o", "r", "e">>

\* link text without stopwords (32 characters)
T_Links ==
    <<"L", "o", "r", "e", "m", " ", "i", "p", "s", "u", "m", " ", "d", "o", "l", "o",
      "r", " ", "s", "i", "t", " ", "a", "m", "e", "t", " ", "l", "o", "r", "e", "m">>

\* link text with stopwords and an exclamation mark (41 characters)
T_LinksBang ==
    <<"C", "l", "i", "c", "k", " ", "h", "e", "r", "e", " ", "a", "n", "d", " ", "r",
      "e", "a", "d", " ", "m", "o", "r", "e", " ", "a", "b", "o", "u", "t", " ", "t",
      "h", "i", "s", " ", "b", "o", "o", "k", "!">>

\* a short English fragment of five words, four of them stopwords (17 characters)
T_ShortEn ==
    <<"I", "t", " ", "w", "a", "s", " ", "i", "n", " ", "t", "h", "e", " ", "e", "n", "d">>

\* two long Latin words: short under aggressive only (27 characters)
T_TwoWords ==
    <<"E", "x", "t", "r", "a", "o", "r", "d", "i", "n", "a", "r", "y", " ", "c", "i",
      "r", "c", "u", "m", "s", "t", "a", "n", "c", "e", "s">>

\* a book title in parentheses (11 characters)
T_Title ==
    <<"UFF08", "U300A", "U660E", "U5B9E", "U5F55", "U300B", "UFF09", "U8FD9", "U662F",
      "U5F15", "U6587">>

\* prose longer than every high_length (259 characters)
T_VeryLong ==
    <<"W", "e", " ", "w", "e", "r", "e", " ", "v", "e", "r", "y", " ", "t", "i", "r",
      "e", "d", " ", "a", "n", "d", " ", "i", "t", " ", "w", "a", "s", " ", "l", "a",
      "t", "e", ",", " ", "b", "u", "t", " ", "t", "h", "e", " ", "r", "o", "a", "d",
      " ", "t", "o", " ", "t", "h", "e", " ", "o", "l", "d", " ", "h", "o", "u", "s",
      "e", " ", "w", "a", "s", " ", "l", "o", "n", "g", " ", "a", "n", "d", " ", "d",
      "a", "r", "k", "!", " ", "W", "e", " ", "w", "e", "r", "e", " ", "v", "e", "r",
      "y", " ", "t", "i", "r", "e", "d", " ", "a", "n", "d", " ", "i", "t", " ", "w",
      "a", "s", " ", "l", "a", "t", "e", ",", " ", "b", "u", "t", " ", "t", "h", "e",
      " ", "r", "o", "a", "d", " ", "t", "o", " ", "t", "h", "e", " ", "o", "l", "d",
      " ", "h", "o", "u", "s", "e", " ", "w", "a", "s", " ", "l", "o", "n", "g", " ",
      "a", "n", "d", " ", "d", "a", "r", "k", "!", " ", "I", "t", " ", "w", "a", "s",
      " ", "a", " ", "l", "o", "n", "g", " ", "w", "a", "y", " ", "t", "o", " ", "t",
      "h", "e", " ", "h", "o", "u", "s", "e", " ", "o", "n", " ", "t", "h", "e", " ",
      "h", "i", "l", "l", ",", " ", "a", "n", "d", " ", "w", "e", " ", "h", "a", "d",
      " ", "t", "o", " ", "b", "e", " ", "t", "h", "e", "r", "e", " ", "b", "y", " ",
      "t", "h", "e", " ", "e", "n", "d", " ", "o", "f", " ", "t", "h", "e", " ", "d",
      "a", "y", ".">>

(***************************************************************************)
(* The blocks a chapter is made of.  A source block is what the extractor  *)
(* has collected for one block element: its tag, its text and the number   *)
(* of its characters that were inside a hyperlink.                         *)
(***************************************************************************)
\* _HEADING_ELEMENTS
HEADING_ELEMENTS == {"h1", "h2", "h3", "h4", "h5", "h6"}

SourceBlock(tag, text, link_chars) == [tag |-> tag, text |-> text, link_chars |-> link_chars]

Texts ==
    {T_TocHeader, T_Decoration, T_LongRule, T_PageNumber, T_TocEntryZh, T_TocEntryEn,
     T_WrappedMarker, T_WrappedHeading, T_WrappedLatin, T_QuickRecap, T_ZhSentence,
     T_ChapterI, T_EnSentence, T_Leon, T_Question, T_LongProse, T_NoPunct, T_Links,
     T_LinksBang, T_TwoWords, T_Title, T_VeryLong, T_ShortEn}

\* the blocks that surround the block under study
ContextBlocks ==
    {SourceBlock("p", T_LongProse, 0), SourceBlock("p", T_PageNumber, 0),
     SourceBlock("p", T_QuickRecap, 0), SourceBlock("p", T_Leon, 0)}

\* every text as a paragraph, some as headings, some as link text
FocusBlocks ==
    {SourceBlock("p", t, 0) : t \in Texts}
        \cup {SourceBlock("h1", t, 0) : t \in {T_ChapterI, T_TocHeader, T_QuickRecap, T_Leon}}
        \cup {SourceBlock("p", T_Links, Len(T_Links)),
              SourceBlock("p", T_LinksBang, Len(T_LinksBang)),
              SourceBlock("p", T_LinksBang, 12)}

\* the largest number of blocks of a chapter
MaxBlocks == 3

\* the chapters: up to MaxBlocks blocks, all but at most one of them context blocks
Chapters ==
    UNION {[1..n -> ContextBlocks]
              \cup {[c EXCEPT ![k] = f] :
                        c \in [1..n -> ContextBlocks], k \in 1..n, f \in FocusBlocks} :
           n \in 0..MaxBlocks}

\* what _extract_blocks_with_html_parser returns for a chapter: the index is the
\* position, total_chars the length of the collapsed text
ExtractedBlocks(chapter) ==
    [k \in 1..Len(chapter) |->
        NewBlock(k - 1, chapter[k].tag, chapter[k].text, Len(chapter[k].text),
                 chapter[k].link_chars, chapter[k].tag \in HEADING_ELEMENTS)]

\* "for block in text_blocks: _classify_block(block, config)", from position k on
RECURSIVE ClassifyFrom(_, _, _)
ClassifyFrom(text_blocks, k, config) ==
    IF k > Len(text_blocks) THEN <<>>
    ELSE <<ClassifyBlock(text_blocks[k], config)>> \o ClassifyFrom(text_blocks, k + 1, config)

\* _clean_with_block_pipeline up to the keep decision
PipelineBlocks(text_blocks, cleaning_strictness) ==
    FinalizeKeepDecision(
        ApplyContextReclassification(
            ClassifyFrom(text_blocks, 1, STRICTNESS_CONFIGS[cleaning_strictness]),
            cleaning_strictness),
        cleaning_strictness)

(***************************************************************************)
(* ChapterTTS.split_text_into_sentences and its helpers.                   *)
(***************************************************************************)
\* Mutant of cjk_endings: the two semicolons are sentence endings as well.
cjk_endings_with_semicolons == {"U3002", "UFF01", "UFF1F", ".", "!", "?", "UFF1B", ";"}

\* cjk_endings of _split_cjk_sentences
cjk_endings == {"U3002", "UFF01", "UFF1F", ".", "!", "?"}

\* clause_separators of _split_cjk_sentences
clause_separators == {"UFF1B", "UFF1A", "UFF0C", ":", ";", ","}

\* split_points of _split_long_sentence, in the order of the tuple, each mark a
\* sequence of characters (a mark that is repeated in the tuple is listed once: a
\* second occurrence is never reached)
split_points ==
    <<<<",">>, <<";">>, <<":">>,
      <<"U2014">>, <<"U2013">>, <<"-">>,
      <<"UFF0C">>, <<"UFF1B">>, <<"UFF1A">>, <<"U3001">>, <<"U2014", "U2014">>,
      <<"U3002">>,
      <<"UFF08">>, <<"UFF09">>, <<"U3010">>, <<"U3011">>, <<"U300A">>, <<"U300B">>,
      <<"U3008">>, <<"U3009">>>>

\* the concatenation of a sequence of sequences
RECURSIVE Flatten(_)
Flatten(seqs) == IF seqs = <<>> THEN <<>> ELSE Head(seqs) \o Flatten(Tail(seqs))

\* the end of the piece of split_on_chars that starts at p: the first split
\* character from p on, the end of the text when there is none
PieceEnd(t, p, split_chars) ==
    LET S == {k \in p..Len(t) : t[k] \in split_chars}
    IN  IF S = {} THEN Len(t) ELSE MinOf(S)

\* what split_on_chars appends for the piece from p to e: the piece stripped, if
\* anything is left of it
StrippedPiece(t, p, e) ==
    IF Strip(SubSeq(t, p, e)) # <<>> THEN <<Strip(SubSeq(t, p, e))>> ELSE <<>>

\* the list "sentences" of split_on_chars for the text from p on
RECURSIVE PiecesFrom(_, _, _)
PiecesFrom(t, p, split_chars) ==
    IF p > Len(t) THEN <<>>
    ELSE StrippedPiece(t, p, PieceEnd(t, p, split_chars))
             \o PiecesFrom(t, PieceEnd(t, p, split_chars) + 1, split_chars)

\* split_on_chars: the original text when no piece is left
SplitOnChars(t, split_chars) ==
    IF PiecesFrom(t, 1, split_chars) = <<>> THEN <<t>> ELSE PiecesFrom(t, 1, split_chars)

\* the clause parts of one sentence of _split_cjk_sentences
ClauseParts(sentence, max_len) ==
    IF Len(sentence) > max_len \div 2
    THEN SplitOnChars(sentence, clause_separators)
    ELSE <<sentence>>

\* the clause parts of the sentences from k on
RECURSIVE ClausePartsFrom(_, _, _)
ClausePartsFrom(sents, k, max_len) ==
    IF k > Len(sents) THEN <<>>
    ELSE ClauseParts(sents[k], max_len) \o ClausePartsFrom(sents, k + 1, max_len)

\* _split_cjk_sentences
SplitCjkSentences(t, max_len) == ClausePartsFrom(SplitOnChars(t, cjk_endings), 1, max_len)

\* The sentence marks of the sentencizer of the pipeline _load_language_model
\* builds, as far as the modelled texts have them.
SentencizerChars == {".", "!", "?", "U3002", "UFF01", "UFF1F"}

\* the end of the sentence of doc.sents that starts at p: a sentence ends with the
\* run of sentence marks and whitespace that follows its words
SentEnd(t, p) ==
    LET S == {k \in p..Len(t) : t[k] \in SentencizerChars}
    IN  IF S = {} THEN Len(t)
        ELSE MinOf(S) + RunLen(t, MinOf(S) + 1, SentencizerChars \cup WhiteSpace)

\* [sent.text.strip() for sent in self._nlp(sentence).sents], from p on
RECURSIVE SentsFrom(_, _)
SentsFrom(t, p) ==
    IF p > Len(t) THEN <<>>
    ELSE <<Strip(SubSeq(t, p, SentEnd(t, p)))>> \o SentsFrom(t, SentEnd(t, p) + 1)

DocSents(sentence) == SentsFrom(sentence, 1)

\* str.split(punct): the parts between the occurrences of punct, empty ones included
RECURSIVE SplitByFrom(_, _, _)
SplitByFrom(t, p, punct) ==
    IF FirstAt(t, p, punct) = 0 THEN <<From(t, p)>>
    ELSE <<SubSeq(t, p, FirstAt(t, p, punct) - 1)>>
             \o SplitByFrom(t, FirstAt(t, p, punct) + Len(punct), punct)

\* the result list of _split_long_sentence for the parts from i on: a part is
\* stripped, an empty part is skipped, every part but the last gets the mark back
RECURSIVE PartsWithPunct(_, _, _)
PartsWithPunct(parts, i, punct) ==
    IF i > Len(parts) THEN <<>>
    ELSE (IF Strip(parts[i]) = <<>> THEN <<>>
          ELSE IF i < Len(parts) THEN <<Strip(parts[i]) \o punct>>
          ELSE <<Strip(parts[i])>>)
             \o PartsWithPunct(parts, i + 1, punct)

\* str.split(): the maximal runs of characters that are not whitespace
WhitespaceWords(t) ==
    LET starts(k) == ~IsSpace(t[k]) /\ (k = 1 \/ IsSpace(t[k - 1]))
        ends(k) == ~IsSpace(t[k]) /\ (k = Len(t) \/ IsSpace(t[k + 1]))
        ss == SelectSeq(Positions(t), starts)
        es == SelectSeq(Positions(t), ends)
    IN  [j \in 1..Len(ss) |-> SubSeq(t, ss[j], es[j])]

\* the fallback of _split_long_sentence: the two halves of the word list
SplitAtMidPoint(words) ==
    <<JoinWithSpace(SubSeq(words, 1, Len(words) \div 2)),
      JoinWithSpace(SubSeq(words, Len(words) \div 2 + 1, Len(words)))>>

\* the marks of split_points that occur in the sentence, as positions of the tuple
SplitPointsIn(sentence) ==
    {k \in 1..Len(split_points) : FirstAt(sentence, 1, split_points[k]) > 0}

\* _split_long_sentence: one split, at the first mark of split_points the sentence
\* contains; the halves and the parts are not split again
SplitLongSentence(sentence) ==
    IF SplitPointsIn(sentence) # {}
    THEN PartsWithPunct(SplitByFrom(sentence, 1, split_points[MinOf(SplitPointsIn(sentence))]),
                        1, split_points[MinOf(SplitPointsIn(sentence))])
    ELSE SplitAtMidPoint(WhitespaceWords(sentence))

\* what the loop over doc.sents appends to all_sentences for one sentence text
SentenceOrParts(sentence_text, max_len) ==
    IF Len(sentence_text) > max_len THEN SplitLongSentence(sentence_text)
    ELSE <<sentence_text>>

RECURSIVE SentencesOrPartsFrom(_, _, _)
SentencesOrPartsFrom(sents, k, max_len) ==
    IF k > Len(sents) THEN <<>>
    ELSE SentenceOrParts(sents[k], max_len) \o SentencesOrPartsFrom(sents, k + 1, max_len)

\* one iteration of "for sentence in cjk_sentences": what it appends
ProcessedSentence(sentence, max_len) ==
    IF Strip(sentence) = <<>> THEN <<>>
    ELSE SentencesOrPartsFrom(DocSents(sentence), 1, max_len)

IsNotBlank(s) == Strip(s) # <<>>

(***************************************************************************)
(* The two ways blocks are extracted from html_content.  A document is a   *)
(* sequence of tokens: a start tag, an end tag, a piece of character data  *)
(* (without "<" and ">"), or a marked section with an unknown keyword      *)
(* ("<![x[]]>").  html.parser calls one handler of _BlockExtractor per     *)
(* tag and per piece of data, in the order of the document; the regular    *)
(* expressions of _extract_blocks_with_regex see the same tokens as text.  *)
(* Tag names are in lower case, as tag.lower() leaves them.                *)
(***************************************************************************)
\* _BLOCK_ELEMENTS
BLOCK_ELEMENTS == {"p", "div", "h1", "h2", "h3", "h4", "h5", "h6", "li", "br", "hr"}

\* _BLACKLIST_TAGS
BLACKLIST_TAGS ==
    {"script", "style", "noscript", "iframe", "object", "embed", "param", "source",
     "track", "canvas", "svg", "math", "template", "slot"}

StartTag(tag) == [kind |-> "start", tag |-> tag, data |-> <<>>]

EndTag(tag) == [kind |-> "end", tag |-> tag, data |-> <<>>]

CharData(data) == [kind |-> "data", tag |-> "", data |-> data]

MarkedSection == [kind |-> "decl", tag |-> "", data |-> <<>>]

(***************************************************************************)
(* _BlockExtractor.  self._current_block is a sequence of no block (None)  *)
(* or one block.                                                           *)
(***************************************************************************)
\* _finish_block with the empty blocks appended as well
FinishBlockKeepingEmpty(parser_blocks, current_block) ==
    IF current_block = <<>> THEN parser_blocks
    ELSE Append(parser_blocks,
                [current_block[1] EXCEPT
                    !.text = CollapseStrip(current_block[1].text),
                    !.total_chars = Max2(current_block[1].total_chars,
                                         Len(CollapseStrip(current_block[1].text)))])

\* _finish_block: self._blocks after it (self._current_block is None after it)
FinishBlock(parser_blocks, current_block) ==
    IF current_block = <<>> THEN parser_blocks
    ELSE IF CollapseStrip(current_block[1].text) = <<>> THEN parser_blocks
    ELSE Append(parser_blocks,
                [current_block[1] EXCEPT
                    !.text = CollapseStrip(current_block[1].text),
                    !.total_chars = Max2(current_block[1].total_chars,
                                         Len(CollapseStrip(current_block[1].text)))])

\* _start_block: the block it creates once _finish_block has run
StartBlock(parser_blocks, current_block, tag) ==
    NewBlock(Len(FinishBlock(parser_blocks, current_block)), tag, <<>>, 0, 0,
             tag \in HEADING_ELEMENTS)

\* handle_starttag: self._blacklist_depth after it
BlacklistDepthAfterStarttag(tag, blacklist_depth) ==
    IF tag \in BLACKLIST_TAGS THEN blacklist_depth + 1 ELSE blacklist_depth

\* handle_endtag: self._blacklist_depth after it
BlacklistDepthAfterEndtag(tag, blacklist_depth) ==
    IF tag \in BLACKLIST_TAGS /\ blacklist_depth > 0
    THEN blacklist_depth - 1
    ELSE blacklist_depth

\* handle_starttag: self._link_depth after it
LinkDepthAfterStarttag(tag, blacklist_depth, link_depth) ==
    IF tag \notin BLACKLIST_TAGS /\ blacklist_depth = 0 /\ tag = "a"
    THEN link_depth + 1
    ELSE link_depth

\* handle_endtag without the test of the link depth
LinkDepthAfterEndtagUnguarded(tag, blacklist_depth, link_depth) ==
    IF ~(tag \in BLACKLIST_TAGS /\ blacklist_depth > 0) /\ blacklist_depth = 0 /\ tag = "a"
    THEN link_depth - 1
    ELSE link_depth

\* handle_endtag: self._link_depth after it
LinkDepthAfterEndtag(tag, blacklist_depth, link_depth) ==
    IF ~(tag \in BLACKLIST_TAGS /\ blacklist_depth > 0)
       /\ blacklist_depth = 0 /\ tag = "a" /\ link_depth > 0
    THEN link_depth - 1
    ELSE link_depth

\* handle_starttag reaches "if normalized_tag in _BLOCK_ELEMENTS" and enters it
StarttagStartsBlock(tag, blacklist_depth) ==
    tag \notin BLACKLIST_TAGS /\ blacklist_depth = 0 /\ tag \in BLOCK_ELEMENTS

\* handle_endtag reaches its last test and calls _finish_block
EndtagFinishesBlock(tag, blacklist_depth, current_block) ==
    /\ ~(tag \in BLACKLIST_TAGS /\ blacklist_depth > 0)
    /\ blacklist_depth = 0
    /\ tag \in BLOCK_ELEMENTS
    /\ current_block # <<>>

\* handle_data from "if self._current_block.text" on: the current block after it
DataAppended(block, clean_data, link_depth) ==
    [block EXCEPT
        !.text = IF block.text # <<>> THEN block.text \o <<" ">> \o clean_data
                 ELSE clean_data,
        !.total_chars = block.total_chars + Len(clean_data),
        !.link_chars = IF link_depth > 0 THEN block.link_chars + Len(clean_data)
                       ELSE block.link_chars]

\* handle_data reaches the current block: no denylisted element is counted and the
\* collapsed data is not empty
DataIsTaken(data, blacklist_depth) ==
    blacklist_depth = 0 /\ CollapseStrip(data) # <<>>

(***************************************************************************)
(* _extract_blocks_with_regex                                              *)
(***************************************************************************)
\* the tags of "for tag in [...]", in the order of the list
REGEX_TAGS == <<"title", "p", "h1", "h2", "h3", "h4", "li", "div">>

\* the first position from i on of a start tag "<tag[^>]*>" (no modelled tag name
\* is a proper extension of another), 0 when there is none
FirstStartTag(tokens, i, tag) ==
    LET S == {k \in i..Len(tokens) : tokens[k].kind = "start" /\ tokens[k].tag = tag}
    IN  IF S = {} THEN 0 ELSE MinOf(S)

\* the first position from i on of the end tag "</tag>", 0 when there is none
FirstEndTag(tokens, i, tag) ==
    LET S == {k \in i..Len(tokens) : tokens[k].kind = "end" /\ tokens[k].tag = tag}
    IN  IF S = {} THEN 0 ELSE MinOf(S)

\* the end tag that closes the first match of "<tag[^>]*>.*?</tag>" from i on, 0
\* when there is no match
FirstMatchEnd(tokens, i, tag) ==
    IF FirstStartTag(tokens, i, tag) = 0 THEN 0
    ELSE FirstEndTag(tokens, FirstStartTag(tokens, i, tag) + 1, tag)

\* re.sub(r"<tag[^>]*>.*?</tag>", "", ...) from position i on
RECURSIVE RemoveElements(_, _, _)
RemoveElements(tokens, i, tag) ==
    IF FirstMatchEnd(tokens, i, tag) = 0 THEN SubSeq(tokens, i, Len(tokens))
    ELSE SubSeq(tokens, i, FirstStartTag(tokens, i, tag) - 1)
             \o RemoveElements(tokens, FirstMatchEnd(tokens, i, tag) + 1, tag)

\* re.sub(r"<[^>]+>", " ", ...): every tag and marked section becomes a space
RECURSIVE TagsToSpaces(_)
TagsToSpaces(tokens) ==
    IF tokens = <<>> THEN <<>>
    ELSE (IF Head(tokens).kind = "data" THEN Head(tokens).data ELSE <<" ">>)
             \o TagsToSpaces(Tail(tokens))

\* clean_text: the tags replaced, the whitespace collapsed and stripped
CleanText(tokens) == CollapseStrip(TagsToSpaces(tokens))

\* the clean texts of re.findall for one tag from position i on, the empty ones
\* left out
RECURSIVE TagTextParts(_, _, _)
TagTextParts(tokens, i, tag) ==
    IF FirstMatchEnd(tokens, i, tag) = 0 THEN <<>>
    ELSE (IF CleanText(SubSeq(tokens, FirstStartTag(tokens, i, tag) + 1,
                              FirstMatchEnd(tokens, i, tag) - 1)) # <<>>
          THEN <<CleanText(SubSeq(tokens, FirstStartTag(tokens, i, tag) + 1,
                                  FirstMatchEnd(tokens, i, tag) - 1))>>
          ELSE <<>>)
             \o TagTextParts(tokens, FirstMatchEnd(tokens, i, tag) + 1, tag)

\* the loop over the tags from the k-th tag on
RECURSIVE TextPartsFrom(_, _)
TextPartsFrom(tokens, k) ==
    IF k > Len(REGEX_TAGS) THEN <<>>
    ELSE TagTextParts(tokens, 1, REGEX_TAGS[k]) \o TextPartsFrom(tokens, k + 1)

\* text_parts: the parts the tags give, or the whole text when they give none
TextParts(content) ==
    IF TextPartsFrom(content, 1) # <<>> THEN TextPartsFrom(content, 1)
    ELSE IF CleanText(content) # <<>> THEN <<CleanText(content)>>
    ELSE <<>>

\* the blocks made of the text parts from the k-th on
RECURSIVE RegexBlocksFrom(_, _)
RegexBlocksFrom(text_parts, k) ==
    IF k > Len(text_parts) THEN <<>>
    ELSE <<NewBlock(k - 1, "regex", text_parts[k], Len(text_parts[k]), 0, FALSE)>>
             \o RegexBlocksFrom(text_parts, k + 1)

\* _extract_blocks_with_regex
ExtractBlocksWithRegex(html_content) ==
    RegexBlocksFrom(
        TextParts(RemoveElements(RemoveElements(html_content, 1, "script"), 1, "style")), 1)

(***************************************************************************)
(* ChapterTTS.process_chapter.  The backend is any implementation of       *)
(* TextToSpeechProtocol.convert_text_to_audio: a call returns True or      *)
(* False (the docstring of the protocol), returns None (the annotation of  *)
(* the protocol, DoubaoTextToSpeech) or raises (AzureTextToSpeech,         *)
(* DoubaoTextToSpeech), and has or has not written the audio file.         *)
(***************************************************************************)
BackendOutcomes ==
    {[returned |-> r, file |-> f] : r \in {"True", "False", "None", "raise"}, f \in BOOLEAN}

\* the elements of a sequence
Range(s) == {s[k] : k \in 1..Len(s)}

\* "if success and temp_audio_path.exists()"
AudioIsLoaded(outcome, temp_audio_path, existing_files) ==
    outcome.returned = "True" /\ temp_audio_path \in existing_files

\* the finally clause: every temporary file that exists is unlinked
CleanUp(existing_files, temp_files_created) == existing_files \ Range(temp_files_created)

(***************************************************************************)
(* _EpubToSpeechConverter.convert.  A chapter is its cleaned text.         *)
(***************************************************************************)
\* the parameters of ChapterTTS.process_chapter
PROCESS_CHAPTER_PARAMETERS == {"text", "output_path", "temp_dir", "voice", "progress_callback"}

\* the parameters of ChapterTTS.process_chapter without a default
PROCESS_CHAPTER_REQUIRED == {"text", "output_path", "temp_dir"}

\* the keywords _convert_chapter_to_audio calls process_chapter with
PROCESS_CHAPTER_KEYWORDS == {"text", "output_path", "workspace_path", "voice"}

\* the call of a function with keyword arguments binds: every keyword is a
\* parameter and every parameter without a default is given (TypeError otherwise)
CallBinds(keywords, parameters, required) ==
    keywords \subseteq parameters /\ required \subseteq keywords

\* "chapters = chapters[: self._max_chapters]" when max_chapters is not None;
\* None is the empty tuple and a limit n the tuple <<n>>
Truncated(chapters, max_chapters) ==
    IF max_chapters = <<>> THEN chapters
    ELSE SubSeq(chapters, 1, Min2(Len(chapters), max_chapters[1]))

(***************************************************************************)
(* The state: one call of extract_text_from_html_with_report and one call  *)
(* of ChapterTTS.split_text_into_sentences, each taken through its loops   *)
(* one iteration at a time, and one extraction of the blocks of a          *)
(* document.  Spec runs the first, SpecSplit the second, SpecParse the     *)
(* third; what a specification does not run stays idle.                    *)
(***************************************************************************)
VARIABLES
    chapter,                \* the chapter handed to the extractor
    cleaning_strictness,    \* the strictness handed to the extractor
    pc,                     \* where the call of the extractor is
    idx,                    \* the position of the running loop
    blocks,                 \* the list of _Block
    cleaned_text,           \* the text returned
    report,                 \* the report returned
    text,                   \* the text handed to the splitter
    max_sentence_length,    \* ChapterTTS.max_sentence_length
    split_pc,               \* where the call of the splitter is
    ending_sentences,       \* "sentences" of _split_cjk_sentences: the split on cjk_endings
    cjk_sentences,          \* the result of _split_cjk_sentences
    sentence_idx,           \* the position of the loop over cjk_sentences
    all_sentences,          \* the list the loop fills
    sentences,              \* the list returned
    html_content,           \* the document handed to the extraction
    parse_pc,               \* where the extraction is
    pos,                    \* the number of tokens the parser has passed
    blacklist_depth,        \* _BlockExtractor._blacklist_depth
    link_depth,             \* _BlockExtractor._link_depth
    parser_blocks,          \* _BlockExtractor._blocks
    current_block,          \* _BlockExtractor._current_block
    tts_sentences,          \* "sentences" of process_chapter
    tts_pc,                 \* where the call of process_chapter is
    tts_i,                  \* the number of sentences the loop has passed
    backend_calls,          \* the texts handed to convert_text_to_audio, in order
    backend_outcomes,       \* what each call of convert_text_to_audio did
    temp_files_created,     \* "temp_files_created" of process_chapter
    existing_files,         \* the temporary files that exist
    audio_segments,         \* "audio_segments" of process_chapter
    final_audio,            \* what was written to output_path
    tts_result,             \* what process_chapter returned
    nav_chapters,           \* the texts of the chapters the picker lists
    max_chapters,           \* _EpubToSpeechConverter._max_chapters
    conv_pc,                \* where the call of convert is
    chapters,               \* "chapters" of convert
    chapter_index,          \* the number of chapters the loop has passed
    document_reports,       \* _EpubToSpeechConverter._document_reports
    tts_chapter_calls,      \* the chapters process_chapter was entered for
    chapter_infos,          \* "chapter_infos" of convert
    conv_result             \* what convert returned

extractVars == <<chapter, cleaning_strictness, pc, idx, blocks, cleaned_text, report>>

splitVars ==
    <<text, max_sentence_length, split_pc, ending_sentences, cjk_sentences, sentence_idx,
      all_sentences, sentences>>

parseVars ==
    <<html_content, parse_pc, pos, blacklist_depth, link_depth, parser_blocks,
      current_block>>

ttsVars ==
    <<tts_sentences, tts_pc, tts_i, backend_calls, backend_outcomes, temp_files_created,
      existing_files, audio_segments, final_audio, tts_result>>

convVars ==
    <<nav_chapters, max_chapters, conv_pc, chapters, chapter_index, document_reports,
      tts_chapter_calls, chapter_infos, conv_result>>

audioVars == <<ttsVars, convVars>>

vars == <<extractVars, splitVars, parseVars, audioVars>>

NoReport == [strictness |-> "none"]

\* the default of max_sentence_length
DEFAULT_MAX_SENTENCE_LENGTH == 500

\* no call of the extractor is made
ExtractorIdle ==
    /\ chapter = <<>>
    /\ cleaning_strictness = "balanced"
    /\ pc = "idle"
    /\ idx = 0
    /\ blocks = <<>>
    /\ cleaned_text = <<>>
    /\ report = NoReport

\* no call of the splitter is made
SplitterIdle ==
    /\ text = <<>>
    /\ max_sentence_length = DEFAULT_MAX_SENTENCE_LENGTH
    /\ split_pc = "idle"
    /\ ending_sentences = <<>>
    /\ cjk_sentences = <<>>
    /\ sentence_idx = 0
    /\ all_sentences = <<>>
    /\ sentences = <<>>

\* no extraction of blocks is followed
TtsIdle ==
    /\ tts_sentences = <<>>
    /\ tts_pc = "idle"
    /\ tts_i = 0
    /\ backend_calls = <<>>
    /\ backend_outcomes = <<>>
    /\ temp_files_created = <<>>
    /\ existing_files = {}
    /\ audio_segments = <<>>
    /\ final_audio = <<>>
    /\ tts_result = "none"

ConverterIdle ==
    /\ nav_chapters = <<>>
    /\ max_chapters = <<>>
    /\ conv_pc = "idle"
    /\ chapters = <<>>
    /\ chapter_index = 0
    /\ document_reports = <<>>
    /\ tts_chapter_calls = <<>>
    /\ chapter_infos = <<>>
    /\ conv_result = "none"

ParserIdle ==
    /\ html_content = <<>>
    /\ parse_pc = "idle"
    /\ pos = 0
    /\ blacklist_depth = 0
    /\ link_depth = 0
    /\ parser_blocks = <<>>
    /\ current_block = <<>>

(***************************************************************************)
(* extract_text_from_html_with_report                                      *)
(***************************************************************************)
Init ==
    /\ chapter \in Chapters
    /\ cleaning_strictness \in TEXT_CLEANING_STRICTNESS_LEVELS \cup {"invalid"}
    /\ pc = "call"
    /\ idx = 0
    /\ blocks = <<>>
    /\ cleaned_text = <<>>
    /\ report = NoReport
    /\ SplitterIdle
    /\ ParserIdle
    /\ TtsIdle
    /\ ConverterIdle

\* _validate_cleaning_strictness raises ValueError
RaiseValueError ==
    /\ pc = "call"
    /\ ~ValidateCleaningStrictness(cleaning_strictness)
    /\ pc' = "raised"
    /\ UNCHANGED <<chapter, cleaning_strictness, idx, blocks, cleaned_text, report>>
    /\ UNCHANGED <<splitVars, parseVars, audioVars>>

\* no block was extracted: the empty text and the empty report are returned
ReturnNoBlocks ==
    /\ pc = "call"
    /\ ValidateCleaningStrictness(cleaning_strictness)
    /\ ExtractedBlocks(chapter) = <<>>
    /\ pc' = "returned"
    /\ cleaned_text' = <<>>
    /\ report' = EmptyReport(cleaning_strictness)
    /\ UNCHANGED <<chapter, cleaning_strictness, idx, blocks>>
    /\ UNCHANGED <<splitVars, parseVars, audioVars>>

\* the blocks are extracted and _clean_with_block_pipeline is entered
EnterPipeline ==
    /\ pc = "call"
    /\ ValidateCleaningStrictness(cleaning_strictness)
    /\ ExtractedBlocks(chapter) # <<>>
    /\ blocks' = ExtractedBlocks(chapter)
    /\ pc' = "classify"
    /\ idx' = 1
    /\ UNCHANGED <<chapter, cleaning_strictness, cleaned_text, report>>
    /\ UNCHANGED <<splitVars, parseVars, audioVars>>

\* one iteration of "for block in text_blocks: _classify_block(block, config)"
ClassifyStep ==
    /\ pc = "classify"
    /\ blocks' = [blocks EXCEPT
                    ![idx] = ClassifyBlock(blocks[idx], STRICTNESS_CONFIGS[cleaning_strictness])]
    /\ IF idx < Len(blocks)
       THEN idx' = idx + 1 /\ pc' = pc
       ELSE idx' = 1 /\ pc' = "first_pass"
    /\ UNCHANGED <<chapter, cleaning_strictness, cleaned_text, report>>
    /\ UNCHANGED <<splitVars, parseVars, audioVars>>

\* one iteration of the first loop of _apply_context_reclassification; after the
\* last one the second loop follows unless the strictness is aggressive
FirstPass ==
    /\ pc = "first_pass"
    /\ blocks' = FirstPassStep(blocks, idx, cleaning_strictness)
    /\ IF idx < Len(blocks)
       THEN idx' = idx + 1 /\ pc' = pc
       ELSE idx' = 1
            /\ pc' = IF cleaning_strictness # "aggressive" THEN "second_pass" ELSE "finalize"
    /\ UNCHANGED <<chapter, cleaning_strictness, cleaned_text, report>>
    /\ UNCHANGED <<splitVars, parseVars, audioVars>>

\* one iteration of the second loop of _apply_context_reclassification
SecondPass ==
    /\ pc = "second_pass"
    /\ blocks' = SecondPassStep(blocks, idx)
    /\ IF idx < Len(blocks)
       THEN idx' = idx + 1 /\ pc' = pc
       ELSE idx' = 1 /\ pc' = "finalize"
    /\ UNCHANGED <<chapter, cleaning_strictness, cleaned_text, report>>
    /\ UNCHANGED <<splitVars, parseVars, audioVars>>

\* _finalize_keep_decision
FinalizeKeep ==
    /\ pc = "finalize"
    /\ blocks' = FinalizeKeepDecision(blocks, cleaning_strictness)
    /\ pc' = "join"
    /\ UNCHANGED <<chapter, cleaning_strictness, idx, cleaned_text, report>>
    /\ UNCHANGED <<splitVars, parseVars, audioVars>>

\* the kept lines are joined, the report is serialized, and both are returned
JoinAndReport ==
    /\ pc = "join"
    /\ cleaned_text' = CleanedText(blocks)
    /\ report' = SerializeReport(blocks, cleaning_strictness)
    /\ pc' = "returned"
    /\ UNCHANGED <<chapter, cleaning_strictness, idx, blocks>>
    /\ UNCHANGED <<splitVars, parseVars, audioVars>>

Next ==
    \/ RaiseValueError
    \/ ReturnNoBlocks
    \/ EnterPipeline
    \/ ClassifyStep
    \/ FirstPass
    \/ SecondPass
    \/ FinalizeKeep
    \/ JoinAndReport

Spec == Init /\ [][Next]_vars

(***************************************************************************)
(* ChapterTTS.split_text_into_sentences                                    *)
(***************************************************************************)
\* the characters the texts handed to the splitter are made of: a letter, the
\* space, two clause separators, a dash and a sentence mark
SplitAlphabet == {"a", " ", ",", ";", "-", "."}

\* the largest length of a text handed to the splitter
MaxTextLen == 5

\* the largest max_sentence_length
MaxLengthLimit == 3

SplitTexts == UNION {[1..n -> SplitAlphabet] : n \in 0..MaxTextLen}

InitSplit ==
    /\ ExtractorIdle
    /\ text \in SplitTexts
    /\ max_sentence_length \in 1..MaxLengthLimit
    /\ split_pc = "call"
    /\ ending_sentences = <<>>
    /\ cjk_sentences = <<>>
    /\ sentence_idx = 0
    /\ all_sentences = <<>>
    /\ sentences = <<>>
    /\ ParserIdle
    /\ TtsIdle
    /\ ConverterIdle

\* the stripped text is empty: the empty list is returned
ReturnNoSentences ==
    /\ split_pc = "call"
    /\ Strip(text) = <<>>
    /\ sentences' = <<>>
    /\ split_pc' = "returned"
    /\ UNCHANGED <<text, max_sentence_length, ending_sentences, cjk_sentences, sentence_idx,
                   all_sentences>>
    /\ UNCHANGED <<extractVars, parseVars, audioVars>>

\* cjk_sentences = self._split_cjk_sentences(text)
SplitCjk ==
    /\ split_pc = "call"
    /\ Strip(text) # <<>>
    /\ ending_sentences' = SplitOnChars(Strip(text), cjk_endings)
    /\ cjk_sentences' = SplitCjkSentences(Strip(text), max_sentence_length)
    /\ sentence_idx' = 1
    /\ split_pc' = "sentences"
    /\ UNCHANGED <<text, max_sentence_length, all_sentences, sentences>>
    /\ UNCHANGED <<extractVars, parseVars, audioVars>>

\* one iteration of "for sentence in cjk_sentences" (the list is never empty)
ProcessSentence ==
    /\ split_pc = "sentences"
    /\ all_sentences' =
          all_sentences \o ProcessedSentence(cjk_sentences[sentence_idx], max_sentence_length)
    /\ IF sentence_idx < Len(cjk_sentences)
       THEN sentence_idx' = sentence_idx + 1 /\ split_pc' = split_pc
       ELSE sentence_idx' = sentence_idx /\ split_pc' = "filter"
    /\ UNCHANGED <<text, max_sentence_length, ending_sentences, cjk_sentences, sentences>>
    /\ UNCHANGED <<extractVars, parseVars, audioVars>>

\* the empty sentences are filtered out and the list is returned
FilterSentences ==
    /\ split_pc = "filter"
    /\ sentences' = SelectSeq(all_sentences, IsNotBlank)
    /\ split_pc' = "returned"
    /\ UNCHANGED <<text, max_sentence_length, ending_sentences, cjk_sentences, sentence_idx,
                   all_sentences>>
    /\ UNCHANGED <<extractVars, parseVars, audioVars>>

NextSplit ==
    \/ ReturnNoSentences
    \/ SplitCjk
    \/ ProcessSentence
    \/ FilterSentences

SpecSplit == InitSplit /\ [][NextSplit]_vars

(***************************************************************************)
(* The extraction of the blocks: _extract_blocks_with_html_parser, and     *)
(* _extract_blocks_with_regex when the parser has raised ValueError or     *)
(* TypeError (extract_text_from_html_with_report, with a valid strictness) *)
(***************************************************************************)
\* the tokens of the documents that are explored in full
TokenAlphabet ==
    {StartTag("p"), StartTag("a"), StartTag("svg"),
     EndTag("p"), EndTag("a"), EndTag("svg"), EndTag("math"),
     CharData(<<"x">>), CharData(<<" ">>), MarkedSection}

\* the largest number of tokens of such a document
MaxEvents == 4

\* some longer documents: a heading and a paragraph, a paragraph in a division, a
\* link in a paragraph, a script before a paragraph, a marked section after a
\* heading, after a division and between two paragraphs
SampleDocuments ==
    {<<StartTag("h1"), CharData(<<"x">>), EndTag("h1"),
       StartTag("p"), CharData(<<"y">>), EndTag("p")>>,
     <<StartTag("div"), StartTag("p"), CharData(<<"x">>), EndTag("p"), EndTag("div")>>,
     <<StartTag("h1"), CharData(<<"x">>), EndTag("h1"), MarkedSection,
       StartTag("p"), CharData(<<"y">>), EndTag("p")>>,
     <<StartTag("div"), StartTag("p"), CharData(<<"x">>), EndTag("p"), EndTag("div"),
       MarkedSection>>,
     <<StartTag("p"), StartTag("a"), CharData(<<"x", " ", " ", "y">>), EndTag("a"),
       CharData(<<"y">>), EndTag("p")>>,
     <<StartTag("script"), CharData(<<"x">>), EndTag("script"),
       StartTag("p"), CharData(<<"y">>), EndTag("p")>>,
     <<StartTag("p"), CharData(<<"x">>), EndTag("p"), MarkedSection,
       StartTag("p"), CharData(<<"y">>), EndTag("p")>>}

Documents == UNION {[1..n -> TokenAlphabet] : n \in 0..MaxEvents} \cup SampleDocuments

\* the exceptions feed is taken to raise at a marked section with an unknown
\* keyword: AssertionError is what html.parser raises there, ValueError and
\* TypeError are the ones the caller catches
ParserExceptions == {"AssertionError", "ValueError", "TypeError"}

InitParse ==
    /\ ExtractorIdle
    /\ SplitterIdle
    /\ TtsIdle
    /\ ConverterIdle
    /\ html_content \in Documents
    /\ parse_pc = "feed"
    /\ pos = 0
    /\ blacklist_depth = 0
    /\ link_depth = 0
    /\ parser_blocks = <<>>
    /\ current_block = <<>>

\* the parser is at a token of the kind
AtToken(kind) ==
    /\ parse_pc = "feed"
    /\ pos < Len(html_content)
    /\ html_content[pos + 1].kind = kind

\* _BlockExtractor.handle_starttag
HandleStarttag ==
    /\ AtToken("start")
    /\ LET tag == html_content[pos + 1].tag
       IN  /\ blacklist_depth' = BlacklistDepthAfterStarttag(tag, blacklist_depth)
           /\ link_depth' = LinkDepthAfterStarttag(tag, blacklist_depth, link_depth)
           /\ IF StarttagStartsBlock(tag, blacklist_depth)
              THEN /\ parser_blocks' = FinishBlock(parser_blocks, current_block)
                   /\ current_block' = <<StartBlock(parser_blocks, current_block, tag)>>
              ELSE UNCHANGED <<parser_blocks, current_block>>
    /\ pos' = pos + 1
    /\ UNCHANGED <<html_content, parse_pc>>
    /\ UNCHANGED <<extractVars, splitVars, audioVars>>

\* _BlockExtractor.handle_endtag
HandleEndtag ==
    /\ AtToken("end")
    /\ LET tag == html_content[pos + 1].tag
       IN  /\ blacklist_depth' = BlacklistDepthAfterEndtag(tag, blacklist_depth)
           /\ link_depth' = LinkDepthAfterEndtag(tag, blacklist_depth, link_depth)
           /\ IF EndtagFinishesBlock(tag, blacklist_depth, current_block)
              THEN /\ parser_blocks' = FinishBlock(parser_blocks, current_block)
                   /\ current_block' = <<>>
              ELSE UNCHANGED <<parser_blocks, current_block>>
    /\ pos' = pos + 1
    /\ UNCHANGED <<html_content, parse_pc>>
    /\ UNCHANGED <<extractVars, splitVars, audioVars>>

\* _BlockExtractor.handle_data
HandleData ==
    /\ AtToken("data")
    /\ LET data == html_content[pos + 1].data
       IN  IF DataIsTaken(data, blacklist_depth)
           THEN /\ current_block' =
                      <<DataAppended(IF current_block = <<>>
                                     THEN StartBlock(parser_blocks, current_block, "text")
                                     ELSE current_block[1],
                                     CollapseStrip(data), link_depth)>>
                /\ UNCHANGED parser_blocks
           ELSE UNCHANGED <<parser_blocks, current_block>>
    /\ pos' = pos + 1
    /\ UNCHANGED <<html_content, parse_pc, blacklist_depth, link_depth>>
    /\ UNCHANGED <<extractVars, splitVars, audioVars>>

\* the parser passes a marked section without calling a handler of _BlockExtractor
SkipMarkedSection ==
    /\ AtToken("decl")
    /\ pos' = pos + 1
    /\ UNCHANGED <<html_content, parse_pc, blacklist_depth, link_depth, parser_blocks,
                   current_block>>
    /\ UNCHANGED <<extractVars, splitVars, audioVars>>

\* feed raises at a marked section: "except (ValueError, TypeError)" leads to the
\* regex fallback, any other exception leaves extract_text_from_html_with_report
FeedRaises ==
    /\ AtToken("decl")
    /\ \E exception \in ParserExceptions :
           parse_pc' = IF exception \in {"ValueError", "TypeError"} THEN "fallback"
                       ELSE "error"
    /\ UNCHANGED <<html_content, pos, blacklist_depth, link_depth, parser_blocks,
                   current_block>>
    /\ UNCHANGED <<extractVars, splitVars, audioVars>>

\* _BlockExtractor.get_blocks at the end of the document
GetBlocks ==
    /\ parse_pc = "feed"
    /\ pos = Len(html_content)
    /\ parser_blocks' = FinishBlock(parser_blocks, current_block)
    /\ current_block' = <<>>
    /\ blocks' = FinishBlock(parser_blocks, current_block)
    /\ parse_pc' = "parsed"
    /\ UNCHANGED <<html_content, pos, blacklist_depth, link_depth>>
    /\ UNCHANGED <<chapter, cleaning_strictness, pc, idx, cleaned_text, report>>
    /\ UNCHANGED <<splitVars, audioVars>>

\* blocks = _extract_blocks_with_regex(html_content)
ExtractWithRegex ==
    /\ parse_pc = "fallback"
    /\ blocks' = ExtractBlocksWithRegex(html_content)
    /\ parse_pc' = "scraped"
    /\ UNCHANGED <<html_content, pos, blacklist_depth, link_depth, parser_blocks,
                   current_block>>
    /\ UNCHANGED <<chapter, cleaning_strictness, pc, idx, cleaned_text, report>>
    /\ UNCHANGED <<splitVars, audioVars>>

NextParse ==
    \/ HandleStarttag
    \/ HandleEndtag
    \/ HandleData
    \/ SkipMarkedSection
    \/ FeedRaises
    \/ GetBlocks
    \/ ExtractWithRegex

SpecParse == InitParse /\ [][NextParse]_vars
(***************************************************************************)
(* ChapterTTS.process_chapter, one iteration of its loop at a time.        *)
(***************************************************************************)
MaxSegments == 3

\* the sentences split_text_into_sentences may hand to the loop
SegmentTexts == {"One.", "Two."}

SentenceLists ==
    UNION {[1..n -> SegmentTexts] : n \in 0..MaxSegments}

InitTts ==
    /\ ExtractorIdle
    /\ SplitterIdle
    /\ ParserIdle
    /\ ConverterIdle
    /\ tts_sentences \in SentenceLists
    /\ tts_pc = "start"
    /\ tts_i = 0
    /\ backend_calls = <<>>
    /\ backend_outcomes = <<>>
    /\ temp_files_created = <<>>
    /\ existing_files = {}
    /\ audio_segments = <<>>
    /\ final_audio = <<>>
    /\ tts_result = "none"

\* "if not sentences: return False", else the try block is entered
EnterProcessChapter ==
    /\ tts_pc = "start"
    /\ IF tts_sentences = <<>>
         THEN tts_pc' = "returned" /\ tts_result' = "False"
         ELSE tts_pc' = "loop" /\ UNCHANGED tts_result
    /\ UNCHANGED <<tts_sentences, tts_i, backend_calls, backend_outcomes, temp_files_created,
                   existing_files, audio_segments, final_audio>>
    /\ UNCHANGED <<extractVars, splitVars, parseVars, convVars>>

\* one iteration of "for i, sentence in enumerate(sentences)"; an exception
\* of the backend leaves the loop through the finally clause
SynthesizeSentence ==
    /\ tts_pc = "loop"
    /\ tts_i < Len(tts_sentences)
    /\ \E outcome \in BackendOutcomes :
         LET i == tts_i + 1
             sentence == tts_sentences[i]
             created == Append(temp_files_created, i)
             on_disk == IF outcome.file THEN existing_files \cup {i} ELSE existing_files
         IN /\ temp_files_created' = created
            /\ backend_calls' = Append(backend_calls, sentence)
            /\ backend_outcomes' = Append(backend_outcomes, outcome)
            /\ IF outcome.returned = "raise"
                 THEN /\ tts_pc' = "raised"
                      /\ existing_files' = CleanUp(on_disk, created)
                      /\ UNCHANGED <<tts_i, audio_segments>>
                 ELSE /\ tts_i' = i
                      /\ existing_files' = on_disk
                      /\ audio_segments' =
                             IF AudioIsLoaded(outcome, i, on_disk)
                               THEN Append(audio_segments, sentence)
                               ELSE audio_segments
                      /\ UNCHANGED tts_pc
    /\ UNCHANGED <<tts_sentences, final_audio, tts_result>>
    /\ UNCHANGED <<extractVars, splitVars, parseVars, convVars>>

\* after the loop: "if not audio_segments: return False", else the segments
\* are concatenated and written; the finally clause runs in both cases
ConcatenateAudio ==
    /\ tts_pc = "loop"
    /\ tts_i = Len(tts_sentences)
    /\ IF audio_segments = <<>>
         THEN tts_result' = "False" /\ UNCHANGED final_audio
         ELSE tts_result' = "True" /\ final_audio' = audio_segments
    /\ existing_files' = CleanUp(existing_files, temp_files_created)
    /\ tts_pc' = "returned"
    /\ UNCHANGED <<tts_sentences, tts_i, backend_calls, backend_outcomes, temp_files_created,
                   audio_segments>>
    /\ UNCHANGED <<extractVars, splitVars, parseVars, convVars>>

NextTts ==
    \/ EnterProcessChapter
    \/ SynthesizeSentence
    \/ ConcatenateAudio

SpecTts == InitTts /\ [][NextTts]_vars

(***************************************************************************)
(* _EpubToSpeechConverter.convert on a converter whose fields are set, one *)
(* chapter at a time.  The picker answers a chapter with its cleaned text. *)
(***************************************************************************)
MaxChapters == 3

\* the cleaned texts of a chapter: empty, whitespace only, or spoken text
ChapterTexts == {<<>>, <<" ">>, <<"H", "i", ".">>}

ChapterLists ==
    UNION {[1..n -> ChapterTexts] : n \in 0..MaxChapters}

InitConvert ==
    /\ ExtractorIdle
    /\ SplitterIdle
    /\ ParserIdle
    /\ TtsIdle
    /\ nav_chapters \in ChapterLists
    /\ max_chapters \in {<<>>} \cup {<<n>> : n \in 0..MaxChapters}
    /\ conv_pc = "start"
    /\ chapters = <<>>
    /\ chapter_index = 0
    /\ document_reports = <<>>
    /\ tts_chapter_calls = <<>>
    /\ chapter_infos = <<>>
    /\ conv_result = "none"

\* "chapters = list(get_nav_items()); if not chapters: return None", else
\* the list is cut to max_chapters
ListChapters ==
    /\ conv_pc = "start"
    /\ IF nav_chapters = <<>>
         THEN /\ conv_pc' = "returned"
              /\ conv_result' = "None"
              /\ UNCHANGED chapters
         ELSE /\ conv_pc' = "chapters"
              /\ chapters' = Truncated(nav_chapters, max_chapters)
              /\ UNCHANGED conv_result
    /\ UNCHANGED <<nav_chapters, max_chapters, chapter_index, document_reports,
                   tts_chapter_calls, chapter_infos>>
    /\ UNCHANGED <<extractVars, splitVars, parseVars, ttsVars>>

\* one iteration of _generate_chapter_infos: _convert_chapter_to_audio and
\* the ChapterInfo it yields when a file came back
ConvertChapterToAudio ==
    /\ conv_pc = "chapters"
    /\ chapter_index < Len(chapters)
    /\ LET i == chapter_index + 1
           chapter_text == chapters[i]
       IN /\ document_reports' = Append(document_reports, i)
          /\ IF Strip(chapter_text) = <<>>
               THEN /\ chapter_index' = i
                    /\ UNCHANGED <<conv_pc, tts_chapter_calls, chapter_infos>>
               ELSE IF ~CallBinds(PROCESS_CHAPTER_KEYWORDS, PROCESS_CHAPTER_PARAMETERS,
                                  PROCESS_CHAPTER_REQUIRED)
                 THEN /\ conv_pc' = "raised"
                      /\ UNCHANGED <<chapter_index, tts_chapter_calls, chapter_infos>>
                 ELSE \E audio_exists \in BOOLEAN :
                        /\ tts_chapter_calls' = Append(tts_chapter_calls, i)
                        /\ chapter_index' = i
                        /\ chapter_infos' =
                               IF audio_exists THEN Append(chapter_infos, i)
                                               ELSE chapter_infos
                        /\ UNCHANGED conv_pc
    /\ UNCHANGED <<nav_chapters, max_chapters, chapters, conv_result>>
    /\ UNCHANGED <<extractVars, splitVars, parseVars, ttsVars>>

\* after the loop: "if not chapter_infos: return None", else the book is
\* generated and output_path returned
GenerateBook ==
    /\ conv_pc = "chapters"
    /\ chapter_index = Len(chapters)
    /\ conv_result' = IF chapter_infos = <<>> THEN "None" ELSE "output_path"
    /\ conv_pc' = "returned"
    /\ UNCHANGED <<nav_chapters, max_chapters, chapters, chapter_index, document_reports,
                   tts_chapter_calls, chapter_infos>>
    /\ UNCHANGED <<extractVars, splitVars, parseVars, ttsVars>>

NextConvert ==
    \/ ListChapters
    \/ ConvertChapterToAudio
    \/ GenerateBook

SpecConvert == InitConvert /\ [][NextConvert]_vars

(***************************************************************************)
(* Properties of the extractor's pipeline (checked under Spec) and of the  *)
(* splitter (checked under SpecSplit).                                     *)
(***************************************************************************)
\* the keep flags are final
KeepDecided == pc \in {"join", "returned"}

\* the block at position k has been through _classify_block
Classified(k) ==
    \/ pc \in {"first_pass", "second_pass", "finalize", "join", "returned"}
    \/ pc = "classify" /\ k < idx

\* the texts of the kept blocks among the first n, in the order of the list, two
\* consecutive ones separated by one space
RECURSIVE KeptTextUpTo(_, _)
KeptTextUpTo(bs, n) ==
    IF n = 0 THEN <<>>
    ELSE IF ~bs[n].keep THEN KeptTextUpTo(bs, n - 1)
    ELSE IF KeptTextUpTo(bs, n - 1) = <<>> THEN bs[n].text
    ELSE KeptTextUpTo(bs, n - 1) \o <<" ">> \o bs[n].text

\* C1: the cleaned text that is returned is the texts of the kept blocks, each
\* exactly once, in increasing order of the block index, joined by one space.
OrderPreserved ==
    pc = "returned" =>
        /\ \A k \in 1..Len(blocks) : blocks[k].index = k - 1
        /\ cleaned_text = KeptTextUpTo(blocks, Len(blocks))

\* a call has returned the first and the third block around a removed second one
OrderPreservedWitness ==
    /\ pc = "returned"
    /\ Len(blocks) = 3
    /\ blocks[1].keep /\ ~blocks[2].keep /\ blocks[3].keep
    /\ blocks[1].text # blocks[3].text
    /\ cleaned_text = blocks[1].text \o <<" ">> \o blocks[3].text

\* the compact text t fully matches one of the noise patterns
MatchesNoisePattern(t) ==
    \/ TocHeaderMatch(t)
    \/ DecorationMatch(t)
    \/ PageNumberMatch(t)
    \/ TocLeaderMatch(t)
    \/ TocEntryZhMatch(t)
    \/ TocEntryEnMatch(t)

\* the texts of the kept blocks among the first n whose text is no noise pattern
RECURSIVE KeptProseUpTo(_, _)
KeptProseUpTo(bs, n) ==
    IF n = 0 THEN <<>>
    ELSE IF ~bs[n].keep \/ MatchesNoisePattern(bs[n].text) THEN KeptProseUpTo(bs, n - 1)
    ELSE IF KeptProseUpTo(bs, n - 1) = <<>> THEN bs[n].text
    ELSE KeptProseUpTo(bs, n - 1) \o <<" ">> \o bs[n].text

\* C2: a block whose normalized text fully matches a noise pattern is bad with the
\* reason noise_pattern and the score -10 from its classification on, whatever the
\* strictness and its neighbours, is never kept, and is no part of the cleaned
\* text; a good block next to it is kept.
NoiseIsDropped ==
    \A k \in 1..Len(blocks) :
        Classified(k) /\ MatchesNoisePattern(blocks[k].text) =>
            /\ blocks[k].classification = "bad"
            /\ blocks[k].reason = "noise_pattern"
            /\ blocks[k].score = -100
            /\ ~blocks[k].keep
            /\ pc = "returned" => cleaned_text = KeptProseUpTo(blocks, Len(blocks))
            /\ \A j \in {k - 1, k + 1} \cap (1..Len(blocks)) :
                   KeepDecided /\ blocks[j].classification = "good" => blocks[j].keep

\* a page number in front of a long paragraph: the paragraph alone is returned
NoiseIsDroppedWitness ==
    /\ pc = "returned"
    /\ Len(blocks) = 2
    /\ PageNumberMatch(blocks[1].text)
    /\ blocks[1].reason = "noise_pattern"
    /\ blocks[2].keep
    /\ cleaned_text = T_LongProse

\* t is a text between two runs of two or more wrapper characters
IsWrapped(t) ==
    /\ RunLen(t, 1, WrapperChars) >= 2
    /\ RunLenBack(t, Len(t), WrapperChars) >= 2
    /\ RunLen(t, 1, WrapperChars) + RunLenBack(t, Len(t), WrapperChars) < Len(t)

\* the text between the two wrappers, trimmed
WrappedInner(t) ==
    CollapseStrip(SubSeq(t, RunLen(t, 1, WrapperChars) + 1,
                         Len(t) - RunLenBack(t, Len(t), WrapperChars)))

\* a text the wrapper pattern takes as a whole for its inner group: 1 to 80
\* characters, none of them a wrapper character or a line break
IsPlain(inner) ==
    /\ Len(inner) \in 1..80
    /\ \A j \in 1..Len(inner) : inner[j] \notin WrapperChars \cup {"\n"}

HasPlainInner(t) == IsWrapped(t) /\ IsPlain(WrappedInner(t))

\* the chapter with every wrapped block that is no generic marker replaced by its
\* inner text
Unwrapped(ch) ==
    [k \in 1..Len(ch) |->
        IF HasPlainInner(ch[k].text) /\ WrappedInner(ch[k].text) \notin GenericWrapperMarkers
        THEN [ch[k] EXCEPT !.text = WrappedInner(ch[k].text)]
        ELSE ch[k]]

KeepRule ==
    KeepDecided =>
        \A k \in 1..Len(blocks) :
            /\ blocks[k].keep <=>
                   \/ blocks[k].classification = "good"
                   \/ /\ blocks[k].classification = "near_good"
                      /\ ~(/\ cleaning_strictness = "aggressive"
                           /\ blocks[k].reason \in
                                  {"high_link_density", "low_punctuation_density"})
            /\ blocks[k].classification \in {"short", "bad"} => ~blocks[k].keep

\* under aggressive a near_good block with many links is dropped next to a
\* near_good block that is kept
KeepRuleWitness ==
    /\ pc = "returned"
    /\ cleaning_strictness = "aggressive"
    /\ \E k \in 1..Len(blocks) :
           /\ blocks[k].classification = "near_good"
           /\ blocks[k].reason = "high_link_density"
           /\ ~blocks[k].keep
    /\ \E k \in 1..Len(blocks) : blocks[k].classification = "near_good" /\ blocks[k].keep

\* C5: the report that is returned has kept_blocks + removed_blocks = total_blocks,
\* total_blocks the number of extracted blocks; with no block all three are 0.
ReportIsConsistent ==
    pc = "returned" =>
        /\ report.kept_blocks + report.removed_blocks = report.total_blocks
        /\ report.total_blocks = Len(ExtractedBlocks(chapter))
        /\ report.kept_blocks = Cardinality({k \in 1..Len(blocks) : blocks[k].keep})
        /\ chapter = <<>> =>
               report.total_blocks = 0 /\ report.kept_blocks = 0 /\ report.removed_blocks = 0

\* a report of three blocks, one of them removed without being bad
ReportIsConsistentWitness ==
    /\ pc = "returned"
    /\ report.total_blocks = 3
    /\ report.kept_blocks = 2
    /\ report.removed_blocks = 1
    /\ \E k \in 1..Len(blocks) : ~blocks[k].keep /\ blocks[k].classification = "short"

\* C6 as stated: the report that is returned has the fields raw_chars, kept_chars,
\* removed_chars and retention_ratio.
ReportHasCharCounts ==
    pc = "returned" =>
        {"raw_chars", "kept_chars", "removed_chars", "retention_ratio"} \subseteq DOMAIN report

\* the characters of the marks the splitter splits at
SplitMarkChars ==
    cjk_endings \cup clause_separators
        \cup UNION {{split_points[k][j] : j \in 1..Len(split_points[k])} :
                      k \in 1..Len(split_points)}

\* a segment that cannot be split further: no split mark and no whitespace in it
CannotBeSplit(s) == \A j \in 1..Len(s) : s[j] \notin SplitMarkChars \cup WhiteSpace

\* C7 as stated: every segment that is returned is no longer than
\* max_sentence_length, unless it has no split mark and no whitespace in it.
SegmentBound ==
    split_pc = "returned" =>
        \A i \in 1..Len(sentences) :
            Len(sentences[i]) <= max_sentence_length \/ CannotBeSplit(sentences[i])

\* the characters of t that are no whitespace, in order
WithoutWhitespace(t) == SelectSeq(t, LAMBDA c : c \notin WhiteSpace)

\* C8 as stated: the segments that are returned, concatenated in order, are the
\* input text, whitespace ignored.
NoTextLoss ==
    split_pc = "returned" =>
        WithoutWhitespace(Flatten(sentences)) = WithoutWhitespace(text)

\* the chapter is one short paragraph with no strong signal: no heading, no
\* sentence-final mark, no CJK character, fewer than four Latin words, shorter than
\* the short_length of a preset
IsolatedWeakBlock ==
    /\ Len(chapter) = 1
    /\ chapter[1].tag \notin HEADING_ELEMENTS
    /\ ~HasSentenceFinal(chapter[1].text)
    /\ ~HasCJK(chapter[1].text)
    /\ EnglishWordCount(chapter[1].text) < 4
    /\ Len(chapter[1].text) < STRICTNESS_CONFIGS["aggressive"].short_length

\* the length of the cleaned text the chapter yields under the strictness s
KeptLength(s) == Len(CleanedText(PipelineBlocks(ExtractedBlocks(chapter), s)))

\* C9 as stated: for a short isolated block with no strong signal, aggressive keeps
\* strictly less than balanced, and balanced keeps at most what conservative keeps.
StrictnessStrictlyMonotone ==
    pc = "returned" /\ IsolatedWeakBlock =>
        /\ cleaning_strictness = "aggressive" => Len(cleaned_text) < KeptLength("balanced")
        /\ cleaning_strictness = "balanced" => Len(cleaned_text) <= KeptLength("conservative")

\* C9, amended: for a short isolated block with no strong signal, aggressive keeps
\* at most what balanced keeps, and balanced at most what conservative keeps; a
\* block shorter than the short_length of balanced is kept by neither balanced nor
\* aggressive.
StrictnessMonotone ==
    pc = "returned" /\ IsolatedWeakBlock =>
        /\ cleaning_strictness = "aggressive" => Len(cleaned_text) <= KeptLength("balanced")
        /\ cleaning_strictness = "balanced" => Len(cleaned_text) <= KeptLength("conservative")
        /\ cleaning_strictness = "conservative" => Len(cleaned_text) >= KeptLength("balanced")
        /\ (Len(blocks[1].text) < STRICTNESS_CONFIGS["balanced"].short_length
               /\ cleaning_strictness # "conservative")
               => cleaned_text = <<>>

\* "Quick recap" alone under aggressive: nothing is returned, balanced returns
\* nothing either, conservative returns the block
StrictnessMonotoneWitness ==
    /\ pc = "returned"
    /\ IsolatedWeakBlock
    /\ cleaning_strictness = "aggressive"
    /\ chapter[1].text = T_QuickRecap
    /\ cleaned_text = <<>>
    /\ KeptLength("balanced") = 0
    /\ KeptLength("conservative") = Len(T_QuickRecap)

\* the classification _classify_block gives the block at position k of the chapter
ClassifierResult(k) ==
    ClassifyBlock(ExtractedBlocks(chapter)[k],
                  STRICTNESS_CONFIGS[cleaning_strictness]).classification

\* C10: under conservative no block is short once the first pass has passed it, and
\* every block the classifier left short is promoted (to near_good, or on to good)
\* and kept.
ConservativeKeepsShort ==
    cleaning_strictness = "conservative" =>
        /\ pc = "first_pass" => \A k \in 1..(idx - 1) : blocks[k].classification # "short"
        /\ pc \in {"second_pass", "finalize", "join", "returned"} =>
               \A k \in 1..Len(blocks) : blocks[k].classification # "short"
        /\ KeepDecided =>
               \A k \in 1..Len(blocks) :
                   ClassifierResult(k) = "short" =>
                       blocks[k].keep /\ blocks[k].classification \in {"near_good", "good"}

\* a short block that only the last rule promotes is returned under conservative
ConservativeKeepsShortWitness ==
    /\ pc = "returned"
    /\ cleaning_strictness = "conservative"
    /\ \E k \in 1..Len(blocks) :
           /\ ClassifierResult(k) = "short"
           /\ blocks[k].classification = "near_good"
           /\ blocks[k].reason = "conservative_short_keep"
           /\ blocks[k].keep


\* C11: a strictness that is none of conservative, balanced and aggressive makes
\* the call raise ValueError before any block is extracted or classified: no
\* block, no text and no report exist for it, and only such a strictness raises.
FailFastOnInvalidStrictness ==
    /\ cleaning_strictness \notin {"conservative", "balanced", "aggressive"} =>
           /\ pc \in {"call", "raised"}
           /\ blocks = <<>>
           /\ cleaned_text = <<>>
           /\ report = NoReport
    /\ pc = "raised" => cleaning_strictness \notin {"conservative", "balanced", "aggressive"}

\* the call has raised for a chapter of three blocks, none of them extracted
FailFastOnInvalidStrictnessWitness ==
    /\ pc = "raised"
    /\ cleaning_strictness = "invalid"
    /\ Len(chapter) = 3
    /\ blocks = <<>>
    /\ report = NoReport

\* C13 as stated: a second run of _apply_context_reclassification on the blocks a
\* first run has produced changes nothing.
ReclassifierIdempotent ==
    pc = "finalize" => ApplyContextReclassification(blocks, cleaning_strictness) = blocks

\* the position of the next kept block after position k, 0 when there is none
NextKept(bs, k) ==
    IF \E j \in (k + 1)..Len(bs) : bs[j].keep
    THEN MinOf({j \in (k + 1)..Len(bs) : bs[j].keep})
    ELSE 0

\* C14 as stated: in the cleaned text that is returned the texts of two consecutive
\* kept blocks are separated by exactly one newline character.
BlockBoundariesAreNewlines ==
    pc = "returned" =>
        \A k \in 1..Len(blocks) :
            blocks[k].keep /\ NextKept(blocks, k) # 0 =>
                \E p \in 1..Len(cleaned_text) :
                    HasAt(cleaned_text, p,
                          blocks[k].text \o <<"\n">> \o blocks[NextKept(blocks, k)].text)

\* the block at position k is as _classify_block has left it: no pass of the
\* reclassifier has visited it yet
FreshlyClassified(k) ==
    \/ pc = "classify" /\ k < idx
    \/ pc = "first_pass" /\ k >= idx

\* _classify_block has returned early for the block
ShortCircuited(block) == block.reason \in {"decorative_wrapper_marker", "noise_pattern"}

\* C19: a block that is not short-circuited is short if its text is shorter than
\* short_length, otherwise good if its score is at least good_score, otherwise bad
\* if its score is at most bad_score, otherwise near_good.
ClassificationFromScoreAndLength ==
    \A k \in 1..Len(blocks) :
        FreshlyClassified(k) /\ ~ShortCircuited(blocks[k]) =>
            LET config == STRICTNESS_CONFIGS[cleaning_strictness]
                char_len == Len(blocks[k].text)
                score == blocks[k].score
            IN  /\ char_len < config.short_length => blocks[k].classification = "short"
                /\ char_len >= config.short_length /\ score >= config.good_score
                       => blocks[k].classification = "good"
                /\ char_len >= config.short_length /\ score < config.good_score
                       /\ score <= config.bad_score
                       => blocks[k].classification = "bad"
                /\ char_len >= config.short_length /\ score < config.good_score
                       /\ score > config.bad_score
                       => blocks[k].classification = "near_good"

\* all blocks are classified: one is short although its score reaches good_score,
\* one is good by its score
ClassificationFromScoreAndLengthWitness ==
    /\ pc = "first_pass" /\ idx = 1
    /\ \E k \in 1..Len(blocks) :
           /\ blocks[k].classification = "short"
           /\ blocks[k].score >= STRICTNESS_CONFIGS[cleaning_strictness].good_score
    /\ \E k \in 1..Len(blocks) :
           /\ blocks[k].classification = "good"
           /\ blocks[k].score = 20

\* the link penalty and the punctuation penalty of the block, from its fields
LinkPenaltyFired(block, config) ==
    block.link_chars * 1000 > config.max_link_density * Max2(block.total_chars, 1)

PunctPenaltyFired(block, config) ==
    /\ CountIn(block.text, PunctChars) * 1000
           < config.min_punct_density * Max2(Len(block.text), 1)
    /\ Len(block.text) >= config.low_length

MalformedHtmlNeverFatal ==
    /\ parse_pc # "error"
    /\ parse_pc = "scraped" =>
           (CleanText(RemoveElements(RemoveElements(html_content, 1, "script"), 1, "style"))
                # <<>>
               => blocks # <<>>)

\* t has no whitespace at either end, and no whitespace but single spaces
IsCompact(t) ==
    /\ t # <<>>
    /\ ~IsSpace(t[1]) /\ ~IsSpace(t[Len(t)])
    /\ \A j \in 1..Len(t) : IsSpace(t[j]) => t[j] = " " /\ ~IsSpace(t[j + 1])

\* the blocks of the list have the indices 0, 1, 2, ... and compact texts
IndexedAndCompact(bs) ==
    \A k \in 1..Len(bs) : bs[k].index = k - 1 /\ IsCompact(bs[k].text)

\* C15: the blocks the parser has emitted, and the blocks either way of extracting
\* returns, have their position as index (0, 1, 2, ... without gap or repetition)
\* and a text that is not empty, trimmed and whitespace-collapsed; the block being
\* collected has the next index, so a block that is discarded uses up no index.
ExtractorIndexInvariant ==
    /\ IndexedAndCompact(parser_blocks)
    /\ current_block # <<>> => current_block[1].index = Len(parser_blocks)
    /\ parse_pc \in {"parsed", "scraped"} => IndexedAndCompact(blocks)

\* a paragraph of whitespace alone was discarded: the paragraph after it has the
\* index 0
ExtractorIndexInvariantWitness ==
    /\ parse_pc = "parsed"
    /\ html_content = <<StartTag("p"), CharData(<<" ">>), StartTag("p"), CharData(<<"x">>)>>
    /\ Len(blocks) = 1
    /\ blocks[1].index = 0
    /\ blocks[1].text = <<"x">>

\* whether s can be had from t by leaving out elements of t
RECURSIVE IsSubsequence(_, _)
IsSubsequence(s, t) ==
    IF s = <<>> THEN TRUE
    ELSE IF t = <<>> THEN FALSE
    ELSE IF Head(s) = Head(t) THEN IsSubsequence(Tail(s), Tail(t))
    ELSE IsSubsequence(s, Tail(t))

\* the texts of the blocks of a list, in the order of the list
BlockTexts(bs) == [k \in 1..Len(bs) |-> bs[k].text]

\* the character data of the first n tokens, in the order of the document
RECURSIVE DocumentData(_, _)
DocumentData(tokens, n) ==
    IF n = 0 THEN <<>>
    ELSE DocumentData(tokens, n - 1)
             \o (IF tokens[n].kind = "data" THEN tokens[n].data ELSE <<>>)

\* C16 as stated: either way of extracting emits the text in the order of the
\* document and no text twice: the characters of the blocks, in the order of the
\* indices, are characters of the document in its order, each taken once.
DocumentOrder ==
    parse_pc \in {"parsed", "scraped"} =>
        IsSubsequence(WithoutWhitespace(Flatten(BlockTexts(blocks))),
                      WithoutWhitespace(DocumentData(html_content, Len(html_content))))

\* the link characters of all blocks the parser holds
RECURSIVE LinkCharsFrom(_, _)
LinkCharsFrom(bs, k) ==
    IF k > Len(bs) THEN 0 ELSE bs[k].link_chars + LinkCharsFrom(bs, k + 1)

CollectedLinkChars == LinkCharsFrom(parser_blocks \o current_block, 1)

\* C17: the link depth is never negative, every block has
\* 0 <= link_chars <= total_chars, and link_chars grows only in a data event at a
\* link depth above 0.
LinkAccounting ==
    /\ [](/\ link_depth >= 0
          /\ \A k \in 1..Len(parser_blocks \o current_block) :
                 /\ 0 <= (parser_blocks \o current_block)[k].link_chars
                 /\ (parser_blocks \o current_block)[k].link_chars
                        <= (parser_blocks \o current_block)[k].total_chars)
    /\ [][CollectedLinkChars' > CollectedLinkChars => AtToken("data") /\ link_depth > 0]_vars

\* a paragraph with a link in it: three of its five characters are link text, and
\* the link depth is back at 0
LinkAccountingWitness ==
    /\ parse_pc = "parsed"
    /\ link_depth = 0
    /\ Len(blocks) = 1
    /\ blocks[1].link_chars = 3
    /\ blocks[1].total_chars = 5

\* the number of elements with the tag that are open after the first n tokens
RECURSIVE OpenCount(_, _, _)
OpenCount(tokens, n, tag) ==
    IF n = 0 THEN 0
    ELSE IF tokens[n].tag = tag /\ tokens[n].kind = "start"
         THEN OpenCount(tokens, n - 1, tag) + 1
    ELSE IF tokens[n].tag = tag /\ tokens[n].kind = "end" /\ OpenCount(tokens, n - 1, tag) > 0
         THEN OpenCount(tokens, n - 1, tag) - 1
    ELSE OpenCount(tokens, n - 1, tag)

\* a denylisted element is open after the first n tokens
DenylistedOpen(tokens, n) == \E tag \in BLACKLIST_TAGS : OpenCount(tokens, n, tag) > 0

\* the character data of the first n tokens that is outside every denylisted
\* element
RECURSIVE DataOutsideDenylisted(_, _)
DataOutsideDenylisted(tokens, n) ==
    IF n = 0 THEN <<>>
    ELSE DataOutsideDenylisted(tokens, n - 1)
             \o (IF tokens[n].kind = "data" /\ ~DenylistedOpen(tokens, n - 1)
                 THEN tokens[n].data ELSE <<>>)

\* C18 as stated: the denylist depth is never negative, and the text the parser
\* has collected is data of events at which no denylisted element was open.
DenylistSkipping ==
    /\ blacklist_depth >= 0
    /\ parse_pc = "feed" =>
           IsSubsequence(
               WithoutWhitespace(Flatten(BlockTexts(parser_blocks \o current_block))),
               WithoutWhitespace(DataOutsideDenylisted(html_content, pos)))

(***************************************************************************)
(* Properties of the context reclassifier (checked under Spec).            *)
(***************************************************************************)
\* the blocks as the classification loop leaves them: the list the first loop of
\* the reclassifier starts from
PrePassBlocks ==
    ClassifyFrom(ExtractedBlocks(chapter), 1, STRICTNESS_CONFIGS[cleaning_strictness])

\* every block decided by the first loop's rules from one list that is not updated
\* in between
SnapshotFirstPass(snapshot, strictness) ==
    [k \in 1..Len(snapshot) |-> FirstPassStep(snapshot, k, strictness)[k]]

\* every block decided by the second loop's rules from one list that is not
\* updated in between
SnapshotSecondPass(snapshot) ==
    [k \in 1..Len(snapshot) |-> SecondPassStep(snapshot, k)[k]]

\* the first loop of the reclassifier has just ended
FirstPassDone ==
    \/ pc = "second_pass" /\ idx = 1
    \/ pc = "finalize" /\ cleaning_strictness = "aggressive"

\* C21 as stated: each loop of the reclassifier decides every block from the
\* classifications the neighbours had before the loop began: the blocks after the
\* first loop are what its rules give block by block on the list as it was before
\* the loop, and the same for the second loop.
NoCascading ==
    /\ FirstPassDone => blocks = SnapshotFirstPass(PrePassBlocks, cleaning_strictness)
    /\ pc = "finalize" /\ cleaning_strictness # "aggressive" =>
           blocks = SnapshotSecondPass(FirstPassFrom(PrePassBlocks, 1, cleaning_strictness))

ContentClasses == {"good", "near_good"}

\* the rules a to h for the short block at position i, each with its reason, in the
\* order of their priority
ShortRules(bs, i, strictness) ==
    <<<<bs[i].is_heading /\ NextCls(bs, i) \in ContentClasses,
        "heading_with_content_context">>,
      <<PrevCls(bs, i) = "good" /\ NextCls(bs, i) = "good",
        "surrounded_by_content">>,
      <<HasSentenceFinal(bs[i].text) /\ Len(bs[i].text) >= 4,
        "short_but_sentence_like">>,
      <<HasCJK(bs[i].text) /\ Len(bs[i].text) >= 4 /\ ~IsNoiseLine(bs[i].text),
        "short_cjk_content_like">>,
      <<strictness # "aggressive" /\ EnglishWordCount(bs[i].text) >= 4
            /\ AtLeastPerMille(bs[i].stopword_density, 120)
            /\ ~LikelyTocShortEnMatch(bs[i].text),
        "short_en_content_like">>,
      <<strictness # "aggressive" /\ ShortPrefixForContent(bs, i),
        "short_prefix_for_content">>,
      <<strictness # "aggressive" /\ ShortSuffixForContent(bs, i),
        "short_suffix_for_content">>,
      <<strictness = "conservative",
        "conservative_short_keep">>>>

\* the rules whose condition holds
RulesThatHold(bs, i, strictness) ==
    {r \in 1..8 : ShortRules(bs, i, strictness)[r][1]}

TocGuardedReasons ==
    {"short_en_content_like", "short_prefix_for_content", "short_suffix_for_content"}

NearGoodInIteration ==
    \/ blocks[idx].classification = "near_good"
    \/ /\ blocks[idx].classification = "short"
       /\ RulesThatHold(blocks, idx, cleaning_strictness) # {}

\* both neighbours of the block at idx are content, as the list is when the block
\* is visited
BetweenContent ==
    PrevCls(blocks, idx) \in ContentClasses /\ NextCls(blocks, idx) \in ContentClasses

\* C23: in an iteration of the first loop a block that is near_good (from its
\* classification or from the promotion of this iteration) and has both neighbours
\* in {good, near_good} becomes good with the reason context_promoted; a near_good
\* block without that is left as it is, nothing else becomes good, and no other
\* block of the list is touched.  So the first and the last block never carry the
\* reason context_promoted.
ContextPromotion ==
    /\ [][pc = "first_pass" =>
            /\ NearGoodInIteration /\ BetweenContent =>
                   /\ blocks'[idx].classification = "good"
                   /\ blocks'[idx].reason = "context_promoted"
            /\ blocks[idx].classification = "near_good" /\ ~BetweenContent =>
                   blocks'[idx] = blocks[idx]
            /\ blocks'[idx].classification = "good" /\ blocks[idx].classification # "good" =>
                   NearGoodInIteration /\ BetweenContent
            /\ \A k \in 1..Len(blocks) : k # idx => blocks'[k] = blocks[k]]_vars
    /\ [](\A k \in 1..Len(blocks) :
              blocks[k].reason = "context_promoted" => 1 < k /\ k < Len(blocks))

\* a block that was classified short, between a near_good and a good block, is
\* good, context_promoted, after the reclassifier
ContextPromotionWitness ==
    /\ pc = "finalize"
    /\ Len(blocks) = 3
    /\ blocks[2].reason = "context_promoted"
    /\ PrePassBlocks[2].classification = "short"
    /\ blocks[1].classification = "near_good"
    /\ blocks[3].classification = "good"

NonAggressiveReasons == TocGuardedReasons \cup {"conservative_short_keep"}

\* C24: under aggressive strictness the second loop never runs and no block ever
\* has the reason of rule e, f, g or h; a short block leaves the state short only
\* in its iteration of the first loop and only by one of the rules a to d, and a
\* block that is short at the end is not kept: a chapter that is one short Latin
\* fragment gives the empty text.
AggressiveKeepsShortBlocksShort ==
    /\ [](cleaning_strictness = "aggressive" =>
              /\ pc # "second_pass"
              /\ \A k \in 1..Len(blocks) :
                     /\ blocks[k].reason \notin NonAggressiveReasons
                     /\ KeepDecided /\ blocks[k].classification = "short" => ~blocks[k].keep
              /\ pc = "returned" /\ (\A k \in 1..Len(blocks) : blocks[k].classification = "short")
                     => cleaned_text = <<>>)
    /\ [][cleaning_strictness = "aggressive" /\ pc \in {"first_pass", "finalize", "join"} =>
            \A k \in 1..Len(blocks) :
                blocks[k].classification = "short" /\ blocks'[k].classification # "short" =>
                    /\ pc = "first_pass"
                    /\ k = idx
                    /\ RulesThatHold(blocks, idx, cleaning_strictness) \cap 1..4 # {}]_vars

\* a chapter that is the short fragment "It was in the end" (which rule e promotes
\* under the other strictness levels) has given the empty text
AggressiveKeepsShortBlocksShortWitness ==
    /\ cleaning_strictness = "aggressive"
    /\ pc = "returned"
    /\ chapter = <<SourceBlock("p", T_ShortEn, 0)>>
    /\ blocks[1].classification = "short"
    /\ cleaned_text = <<>>

\* the order short < near_good < good; bad is outside it
ClassRank(classification) ==
    CASE classification = "good" -> 3
      [] classification = "near_good" -> 2
      [] classification = "short" -> 1
      [] OTHER -> 0

\* from the list before to the list after no block goes down in the order, and a
\* good or bad block keeps its classification and its reason
OnlyPromoted(before, after) ==
    /\ Len(after) = Len(before)
    /\ \A k \in 1..Len(before) :
           /\ ClassRank(after[k].classification) >= ClassRank(before[k].classification)
           /\ before[k].classification \in {"good", "bad"} =>
                  /\ after[k].classification = before[k].classification
                  /\ after[k].reason = before[k].reason

\* C26: the reclassifier only promotes: over every iteration of its two loops, and
\* from the classified list to the list it leaves, a block's classification stays
\* or goes up in the order short < near_good < good, and a block that was good or
\* bad has the same classification and reason afterwards.
ReclassifierOnlyPromotes ==
    /\ [][(pc = "first_pass" \/ pc = "second_pass") => OnlyPromoted(blocks, blocks')]_vars
    /\ [](pc = "finalize" => OnlyPromoted(PrePassBlocks, blocks))

\* a bad block between two good blocks is bad after the reclassifier
ReclassifierOnlyPromotesWitness ==
    /\ pc = "finalize"
    /\ Len(blocks) = 3
    /\ blocks[1].classification = "good"
    /\ blocks[2].classification = "bad"
    /\ blocks[3].classification = "good"

(***************************************************************************)
(* The conservative preset (checked under Spec).                           *)
(***************************************************************************)
\* C27: no block that _classify_block scored has a score below -2.0 (-20 tenths),
\* which is above the conservative bad_score; so under conservative a bad block is one the
\* classifier returned early for (empty decorative wrapper or noise pattern), and
\* once the keep decision is made a block is dropped if and only if it is such a
\* block: every short or near_good block of the classifier is kept.
ConservativeDropsOnlyNoise ==
    /\ -20 > STRICTNESS_CONFIGS["conservative"].bad_score
    /\ \A k \in 1..Len(blocks) :
           Classified(k) /\ ~ShortCircuited(blocks[k]) => blocks[k].score >= -20
    /\ cleaning_strictness = "conservative" =>
           \A k \in 1..Len(blocks) :
               /\ Classified(k) /\ blocks[k].classification = "bad" => ShortCircuited(blocks[k])
               /\ KeepDecided =>
                      (~blocks[k].keep <=>
                           blocks[k].classification = "bad" /\ ShortCircuited(blocks[k]))

\* a block with the lowest score, -2.0, is returned kept under conservative, next
\* to a noise block that is dropped
ConservativeDropsOnlyNoiseWitness ==
    /\ pc = "returned"
    /\ cleaning_strictness = "conservative"
    /\ \E k \in 1..Len(blocks) :
           /\ blocks[k].score = -20
           /\ blocks[k].classification = "near_good"
           /\ blocks[k].keep
    /\ \E k \in 1..Len(blocks) :
           /\ blocks[k].reason = "noise_pattern"
           /\ ~blocks[k].keep

(***************************************************************************)
(* The first step of the splitter (checked under SpecSplit).               *)
(***************************************************************************)
\* the sentence-final marks of the first step, full-width and Western
SentenceEndMarks == {"U3002", "UFF01", "UFF1F", ".", "!", "?"}

\* the two semicolons, full-width and Western
Semicolons == {"UFF1B", ";"}

\* the segments are the stripped text cut after every occurrence of a mark: no
\* segment has a mark before its last character, there is one segment for every
\* mark and one for what follows the last mark, nothing but whitespace is lost, and
\* a text without a mark is one segment
SplitAfterEvery(marks, t, segments) ==
    /\ \A i \in 1..Len(segments) :
           \A j \in 1..(Len(segments[i]) - 1) : segments[i][j] \notin marks
    /\ Len(segments) = CountIn(t, marks) + (IF t[Len(t)] \in marks THEN 0 ELSE 1)
    /\ WithoutWhitespace(Flatten(segments)) = WithoutWhitespace(t)
    /\ CountIn(t, marks) = 0 => segments = <<t>>

\* the first step of _split_cjk_sentences has run
FirstSplitDone == split_pc \in {"sentences", "filter", "returned"} /\ Strip(text) # <<>>

\* C25 as stated: the first step splits the text after every occurrence of a mark
\* of the set that has the two semicolons in it, the mark kept at the end of the
\* segment before; a text without such a mark is one segment.
SplitAfterSentenceMarksAndSemicolons ==
    FirstSplitDone =>
        SplitAfterEvery(SentenceEndMarks \cup Semicolons, Strip(text), ending_sentences)

\* C25, amended: the first step splits the text after every occurrence of one of
\* the six marks (full-width and Western full stop, exclamation mark and question
\* mark), the mark kept at the end of the segment before, for a text of any length;
\* a text without such a mark is one segment.  A semicolon does not end a segment
\* of the first step.
SplitAfterSentenceMarks ==
    FirstSplitDone => SplitAfterEvery(SentenceEndMarks, Strip(text), ending_sentences)

\* "a;a.a" has been split into "a;a." and "a"
SplitAfterSentenceMarksWitness ==
    /\ split_pc = "returned"
    /\ text = <<"a", ";", "a", ".", "a">>
    /\ ending_sentences = <<<<"a", ";", "a", ".">>, <<"a">>>>

\* whether the call of process_chapter has left its loop for good
ProcessChapterOver == tts_pc = "returned" \/ tts_pc = "raised"

\* the calls of the backend that produced an audio file: the call did not
\* report a failure (no False, no exception) and the file is there
ProducedAudio(outcome) ==
    outcome.file /\ outcome.returned # "False" /\ outcome.returned # "raise"

RECURSIVE AudioOfProduced(_, _)
\* the sentences whose call produced an audio file, in the order of the calls
AudioOfProduced(calls, outcomes) ==
    IF calls = <<>> THEN <<>>
    ELSE IF ProducedAudio(Head(outcomes))
      THEN <<Head(calls)>> \o AudioOfProduced(Tail(calls), Tail(outcomes))
      ELSE AudioOfProduced(Tail(calls), Tail(outcomes))

\* C28: process_chapter sends the segments to the backend one at a time in
\* segment order; when it has returned, the chapter audio is the audio of
\* every segment whose backend call produced an audio file, in the order of
\* the segments, and it returned True exactly when some audio was included.
AudioOrderAndInclusion ==
    /\ Len(backend_calls) <= Len(tts_sentences)
    /\ backend_calls = SubSeq(tts_sentences, 1, Len(backend_calls))
    /\ tts_pc = "returned" =>
          /\ final_audio = AudioOfProduced(backend_calls, backend_outcomes)
          /\ (tts_result = "True") <=> (final_audio # <<>>)

\* C29: when process_chapter is over, by a return or by an exception that
\* propagates, every segment was handed to the backend, whatever the calls
\* before it did, and no temporary file that it created exists.
FailedSegmentDoesNotFailChapter ==
    ProcessChapterOver =>
        /\ backend_calls = tts_sentences
        /\ existing_files \cap Range(temp_files_created) = {}

\* whether the call of convert is over
ConvertOver == conv_pc = "returned" \/ conv_pc = "raised"

\* the chapters the loop has passed whose cleaned text is empty or blank
SkippedChapters == {k \in 1..chapter_index : Strip(chapters[k]) = <<>>}

\* whether a sequence of numbers rises strictly
StrictlyRising(s) == \A k \in 1..(Len(s) - 1) : s[k] < s[k + 1]

\* C30: in convert, a chapter whose cleaned text is empty or only white
\* space has a document report, no call of process_chapter and no
\* ChapterInfo, and is not where an error ends convert; when convert is
\* over every chapter of the list was processed; the ChapterInfo list
\* follows the navigation order; and convert returns None exactly when no
\* chapter produced audio.
EmptyChapterIsSkipped ==
    /\ \A k \in SkippedChapters :
          /\ k \in Range(document_reports)
          /\ k \notin Range(tts_chapter_calls)
          /\ k \notin Range(chapter_infos)
    /\ StrictlyRising(chapter_infos)
    /\ conv_pc = "raised" => Strip(chapters[chapter_index + 1]) # <<>>
    /\ ConvertOver =>
          /\ Range(document_reports) = 1..Len(chapters)
          /\ (conv_result = "None") <=> (chapter_infos = <<>>)
=============================================================================
